---- MODULE Spec2Model ----
(***************************************************************************)
(* Browser lifecycle of the mb.io end-to-end suite: the PlaywrightManager  *)
(* singleton (utils/playwrightManager.ts), the Cucumber lifecycle hooks    *)
(* (hooks/hooks.ts) and the login bootstrapper (config/global-setup.ts).   *)
(*                                                                         *)
(* Every manager method is an operator from a manager state (and the       *)
(* outcomes of the Playwright / fs calls it awaits) to a result record     *)
(* [m, res, ret, log], so that a method calling another method, or a hook  *)
(* calling several, is the composition the source writes.                  *)
(***************************************************************************)
EXTENDS Integers, Sequences, FiniteSets, TLC

VARIABLES
    ENV,          \* config/env.ts: the settings object read at process start
    storageFile,  \* the persisted session-state file: "absent" | "partial" | "full"
    mgr,          \* PlaywrightManager's static fields and the browser objects behind them
    lastCall,     \* the most recent manager call: operation, outcome, handles before it
    hk,           \* the Cucumber worker: position in the hook sequence, world, report
    gs,           \* globalSetup(): position in the login flow and what it has done
    os,           \* the worker process and its machine: pid, clock, artifact files
    su,           \* the artifact directories and the worker processes of a run at suite start
    sa,           \* a call of BasePage.safeAction: its arguments, its loop and how it ended
    wc,           \* a call of WaitUtils.waitForCondition: its arguments, its loop and how it ended
    rc,           \* manager calls that overlap: each caller's operation, position and result
    sc            \* one worker running the defined scenarios: the step modules' page actors and their use

vars == <<ENV, storageFile, mgr, lastCall, hk, gs, os, su, sa, wc, rc, sc>>

-----------------------------------------------------------------------------
(* Bounds of the model *)

MaxOpen == 4        \* browsers, contexts and pages open at the same time
MaxScenarios == 2   \* scenario attempts one worker runs
MaxSteps == 2       \* steps one scenario executes
MaxTime == 3        \* milliseconds the clock is followed for
MaxArtifacts == 1   \* artifacts one worker writes after its BeforeAll hook
MaxRetries == 4     \* the largest `retries` safeAction is called with

Null == 0           \* a null handle; live handles are 1, 2, ...

-----------------------------------------------------------------------------
(* Configuration *)

\* values of process.env.BROWSER the model draws from: the three engines (one
\* of them capitalised) and a value the switch does not recognise
BrowserSettings == {"chromium", "Firefox", "webkit", "edge"}

\* String.prototype.toLowerCase on the values of BrowserSettings
toLowerCase(s) == IF s = "Firefox" THEN "firefox" ELSE s

\* the switch of launchBrowser: which engine's launch() is called
EngineFor(browserType) ==
    CASE browserType = "firefox" -> "firefox"
      [] browserType = "webkit" -> "webkit"
      [] OTHER -> "chromium"

\* scenario names of the run, and an absent takeScreenshot(name?) argument
NoName == "<none>"
ScenarioNames == {"Sign in", "Sign_in"}
\* the name a direct caller of takeScreenshot / saveTrace passes
ApiNames == {"Sign in"}

\* scenarioName.replace(/\s+/g, '_') on the names of ScenarioNames
replaceWhitespace(s) == IF s = "Sign in" THEN "Sign_in" ELSE s

-----------------------------------------------------------------------------
(* The browser objects behind the handles *)

\* The manager's three fields hold a handle or Null; the browser side keeps the
\* objects that are open: a closed object is gone, whatever handle still names
\* it. A new object gets a handle that names no open object and that nobody
\* holds, so two handles are equal only when they name the same object.
InitMgr ==
    [browser |-> Null, context |-> Null, page |-> Null,
     browsers |-> <<>>,     \* open browser -> the engine it runs
     contexts |-> <<>>,     \* open context -> [browser, storageState, tracing]
     pages |-> <<>>,        \* open page -> its context
     held |-> {}]           \* <<"page" | "context", handle>> kept by step code

Held(m, kind) == {h[2] : h \in {g \in m.held : g[1] = kind}}

\* the first handle not in `used`
Fresh(used) == CHOOSE h \in 1..(Cardinality(used) + 1) :
                  h \notin used /\ \A g \in 1..(h - 1) : g \in used

\* tracing of a context: "off" until tracing.start() succeeds, then "recording"
\* until a tracing.stop() succeeds, then "stopped"

\* f with the keys of ks removed, and f with key k set to v
Without(f, ks) == [k \in DOMAIN f \ ks |-> f[k]]
With(f, k, v) == [x \in DOMAIN f \cup {k} |-> IF x = k THEN v ELSE f[x]]

\* the result of a call: the manager afterwards, how the call ended, what it
\* returned, the file it wrote, the warnings it logged and the close() calls
\* it issued, in their order
NoFile == <<>>
Ret(m, res, ret) ==
    [m |-> m, res |-> res, ret |-> ret, file |-> NoFile, warns |-> {}, closes |-> <<>>]
RetFile(m, res, ret, file) ==
    [m |-> m, res |-> res, ret |-> ret, file |-> file, warns |-> {}, closes |-> <<>>]
Warned(r, w) == [r EXCEPT !.warns = @ \cup w]
Closing(r, closes) == [r EXCEPT !.closes = closes]

\* outcomes of the awaited Playwright / fs calls of one manager call
CallOutcomes ==
    [launch : BOOLEAN, newContext : BOOLEAN, tracingStart : BOOLEAN,
     newPage : BOOLEAN, screenshot : BOOLEAN, write : BOOLEAN,
     tracingStop : BOOLEAN]

\* Playwright: a page is usable while it is open (closing a context or a
\* browser closes what it owns)
PageLive(m, p) == p \in DOMAIN m.pages
ContextLive(m, c) == c \in DOMAIN m.contexts
BrowserLive(m, b) == b \in DOMAIN m.browsers

\* Playwright Page.close(): closes the page; resolves on an already closed page
PageClose(m, p) ==
    IF p = Null THEN Ret(m, "TypeError", Null)
    ELSE Ret([m EXCEPT !.pages = Without(@, {p})], "ok", Null)

\* Playwright BrowserContext.close(): closes the context and every page in it
ContextClose(m, c) ==
    IF c = Null THEN Ret(m, "TypeError", Null)
    ELSE Ret([m EXCEPT
                !.contexts = Without(@, {c}),
                !.pages = Without(@, {p \in DOMAIN m.pages : m.pages[p] = c})],
             "ok", Null)

\* Playwright Browser.close(): closes the browser, its contexts and their pages
BrowserClose(m, b) ==
    IF b = Null THEN Ret(m, "TypeError", Null)
    ELSE LET cs == {c \in DOMAIN m.contexts : m.contexts[c].browser = b}
         IN Ret([m EXCEPT
                   !.browsers = Without(@, {b}),
                   !.contexts = Without(@, cs),
                   !.pages = Without(@, {p \in DOMAIN m.pages : m.pages[p] \in cs})],
                "ok", Null)

-----------------------------------------------------------------------------
(* PlaywrightManager *)

\* launchBrowser without its `if (this.browser) return this.browser`
launchBrowser_NoGuard(m, e) ==
    IF ~e.launch THEN Ret(m, "launchFailed", Null)
    ELSE LET b == Fresh(DOMAIN m.browsers \cup {m.browser})
         IN Ret([m EXCEPT !.browsers = With(@, b, EngineFor(toLowerCase(ENV.BROWSER))),
                          !.browser = b],
                "ok", b)

launchBrowser(m, e) ==
    IF m.browser # Null THEN Ret(m, "ok", m.browser)
    ELSE IF ~e.launch THEN Ret(m, "launchFailed", Null)
    ELSE LET b == Fresh(DOMAIN m.browsers \cup {m.browser})
             browserType == toLowerCase(ENV.BROWSER)
         IN Ret([m EXCEPT
                          !.browsers = With(@, b, EngineFor(browserType)),
                          !.browser = b],
                "ok", b)

\* the warning createContext logs when fs.existsSync(storagePath) is false
NoStorageState == "No storage state found"

\* createContext throwing when the session-state file is missing
createContext_RequiresStorage(m, e) ==
    LET r0 == IF m.browser = Null THEN launchBrowser(m, e)
              ELSE Ret(m, "ok", m.browser)
        m0 == r0.m
        c == Fresh(DOMAIN m0.contexts \cup {m0.context} \cup Held(m0, "context"))
        new == [browser |-> m0.browser, storageState |-> TRUE, tracing |-> "off"]
        m1 == [m0 EXCEPT !.contexts = With(@, c, new),
                         !.context = c]
        m2 == [m1 EXCEPT !.contexts[c].tracing = "recording"]
    IN  IF r0.res # "ok" THEN Ret(m0, r0.res, Null)
        ELSE IF storageFile = "absent" THEN Ret(m0, "storageStateMissing", Null)
        ELSE IF ~BrowserLive(m0, m0.browser) THEN Ret(m0, "targetClosed", Null)
        ELSE IF ~e.newContext THEN Ret(m0, "newContextFailed", Null)
        ELSE IF ~ENV.TRACE_ON_FAILURE THEN Ret(m1, "ok", c)
        ELSE IF ~e.tracingStart THEN Ret(m1, "tracingStartFailed", Null)
        ELSE Ret(m2, "ok", c)

\* the storage state is applied when the file exists, its absence is logged
\* as a warning before newContext is called
createContext(m, e) ==
    LET r0 == IF m.browser = Null THEN launchBrowser(m, e)
              ELSE Ret(m, "ok", m.browser)
        m0 == r0.m
        c == Fresh(DOMAIN m0.contexts \cup {m0.context} \cup Held(m0, "context"))
        new == [browser |-> m0.browser, storageState |-> storageFile # "absent",
                tracing |-> "off"]
        m1 == [m0 EXCEPT !.contexts = With(@, c, new),
                         !.context = c]
        m2 == [m1 EXCEPT !.contexts[c].tracing = "recording"]
    IN  IF r0.res # "ok" THEN Ret(m0, r0.res, Null)
        ELSE Warned(IF ~BrowserLive(m0, m0.browser) THEN Ret(m0, "targetClosed", Null)
                    ELSE IF ~e.newContext THEN Ret(m0, "newContextFailed", Null)
                    ELSE IF ~ENV.TRACE_ON_FAILURE THEN Ret(m1, "ok", c)
                    ELSE IF ~e.tracingStart THEN Ret(m1, "tracingStartFailed", Null)
                    ELSE Ret(m2, "ok", c),
                    IF storageFile = "absent" THEN {NoStorageState} ELSE {})

\* createPage without its `if (!this.context) await this.createContext()`
createPage_NoLazyContext(m, e) ==
    LET p == Fresh(DOMAIN m.pages \cup {m.page} \cup Held(m, "page"))
    IN  IF m.context = Null THEN Ret(m, "TypeError", Null)
        ELSE IF ~ContextLive(m, m.context) THEN Ret(m, "targetClosed", Null)
        ELSE IF ~e.newPage THEN Ret(m, "newPageFailed", Null)
        ELSE Ret([m EXCEPT !.pages = With(@, p, m.context),
                           !.page = p],
                 "ok", p)

createPage(m, e) ==
    LET r0 == IF m.context = Null THEN createContext(m, e)
              ELSE Ret(m, "ok", m.context)
        m0 == r0.m
        p == Fresh(DOMAIN m0.pages \cup {m0.page} \cup Held(m0, "page"))
    IN  Warned(IF r0.res # "ok" THEN Ret(m0, r0.res, Null)
               ELSE IF ~ContextLive(m0, m0.context) THEN Ret(m0, "targetClosed", Null)
               ELSE IF ~e.newPage THEN Ret(m0, "newPageFailed", Null)
               ELSE Ret([m0 EXCEPT !.pages = With(@, p, m0.context),
                                   !.page = p],
                        "ok", p),
               r0.warns)

getPage(m) ==
    IF m.page = Null THEN Ret(m, "notInitialized", Null)
    ELSE Ret(m, "ok", m.page)

\* getContext testing the browser field instead of the context field
getContext_WrongField(m) ==
    IF m.browser = Null THEN Ret(m, "notInitialized", Null)
    ELSE Ret(m, "ok", m.context)

getContext(m) ==
    IF m.context = Null THEN Ret(m, "notInitialized", Null)
    ELSE Ret(m, "ok", m.context)

getBrowser(m) ==
    IF m.browser = Null THEN Ret(m, "notInitialized", Null)
    ELSE Ret(m, "ok", m.browser)

\* path.join(screenshotDir, `${name}.png`)
ScreenshotPath(name) == <<"test-results/screenshots", name>>

\* returns the buffer, modelled as the page it pictures
takeScreenshot(m, name, e) ==
    IF m.page = Null THEN Ret(m, "pageNotAvailable", Null)
    ELSE IF ~PageLive(m, m.page) THEN Ret(m, "targetClosed", Null)
    ELSE IF ~e.screenshot THEN Ret(m, "screenshotFailed", Null)
    ELSE IF name = NoName THEN Ret(m, "ok", m.page)
    ELSE IF ~e.write THEN Ret(m, "writeFailed", Null)
    ELSE RetFile(m, "ok", m.page, ScreenshotPath(name))

\* scenarioName.replace(/[^a-zA-Z0-9_-]+/g, '_').replace(/_+/g, '_')
\* .replace(/^_|_$/g, '') on the names of ScenarioNames
safeScenarioName(s) == IF s = "Sign in" THEN "Sign_in" ELSE s

\* the trace path without its timestamp: two stops in one process write the
\* same file
TracePath_NoTimestamp(scenarioName, pid, now) ==
    <<"test-results/traces", safeScenarioName(scenarioName), pid, 0>>

\* path.join(traceDir, `${safeScenarioName}_${process.pid}_${Date.now()}.zip`)
TracePath(scenarioName, pid, now) ==
    <<"test-results/traces", safeScenarioName(scenarioName), pid, now>>

\* returns the trace path: a non-null value. Every outcome but the first is
\* that of a tracing.stop() call issued on the context
saveTrace(m, scenarioName, e) ==
    IF m.context = Null \/ ~ENV.TRACE_ON_FAILURE THEN Ret(m, "ok", Null)
    ELSE LET c == m.context
         IN IF ~ContextLive(m, c) THEN Ret(m, "targetClosed", Null)
            ELSE IF m.contexts[c].tracing # "recording" THEN Ret(m, "notRecording", Null)
            ELSE IF ~e.tracingStop THEN Ret(m, "tracingStopFailed", Null)
            ELSE RetFile([m EXCEPT !.contexts[c].tracing = "stopped"], "ok", c,
                         TracePath(scenarioName, os.pid, os.now))

\* closePage without its `if (this.page)`
closePage_NoGuard(m) ==
    LET r == PageClose(m, m.page)
    IN IF r.res # "ok" THEN r
       ELSE Ret([r.m EXCEPT !.page = Null], "ok", Null)

closePage(m) ==
    IF m.page # Null
    THEN LET r == PageClose(m, m.page)
         IN IF r.res # "ok" THEN r
            ELSE Closing(Ret([r.m EXCEPT !.page = Null], "ok", Null), <<"page">>)
    ELSE Ret(m, "ok", Null)

closeContext(m) ==
    IF m.context # Null
    THEN LET r == ContextClose(m, m.context)
         IN IF r.res # "ok" THEN r
            ELSE Closing(Ret([r.m EXCEPT !.context = Null], "ok", Null), <<"context">>)
    ELSE Ret(m, "ok", Null)

\* closeBrowser closing the browser before the page and the context
closeBrowser_BrowserFirst(m) ==
    LET r0 == IF m.browser # Null THEN BrowserClose(m, m.browser) ELSE Ret(m, "ok", Null)
        r1 == closePage([r0.m EXCEPT !.browser = Null])
        r2 == closeContext(r1.m)
    IN  Closing(Ret(r2.m, "ok", Null),
                (IF m.browser # Null THEN <<"browser">> ELSE <<>>)
                    \o r1.closes \o r2.closes)

closeBrowser(m) ==
    LET r1 == closePage(m)
        r2 == closeContext(r1.m)
        m2 == r2.m
    IN  IF r1.res # "ok" THEN r1
        ELSE IF r2.res # "ok" THEN r2
        ELSE IF m2.browser # Null
        THEN LET r == BrowserClose(m2, m2.browser)
             IN IF r.res # "ok" THEN r
                ELSE Closing(Ret([r.m EXCEPT !.browser = Null], "ok", Null),
                             r1.closes \o r2.closes \o <<"browser">>)
        ELSE Closing(Ret(m2, "ok", Null), r1.closes \o r2.closes)

cleanup(m) == closeBrowser(m)

-----------------------------------------------------------------------------
(* The manager driven call by call: any sequence of its public methods *)

Handles(m) == [browser |-> m.browser, context |-> m.context, page |-> m.page]

\* the contexts a step from m to n closed, each as it was when closed
Closed(m, n) == {m.contexts[c] : c \in DOMAIN m.contexts \ DOMAIN n.contexts}

\* tracing of the context the manager holds, "none" when it holds no open one
Tracing(m) == IF ContextLive(m, m.context) THEN m.contexts[m.context].tracing ELSE "none"

\* a call as its caller sees it (op, res, ret, file) and what it met and did:
\* the handles and the tracing before it, whether it launched a browser
\* process, the contexts it closed
NoCall ==
    [op |-> "none", res |-> "ok", ret |-> Null, file |-> NoFile,
     warns |-> {}, closes |-> <<>>,
     pre |-> Handles(InitMgr), tracing |-> "none", launched |-> FALSE,
     closed |-> {}]

WithinBounds(m) ==
    Cardinality(DOMAIN m.browsers) + Cardinality(DOMAIN m.contexts)
        + Cardinality(DOMAIN m.pages) <= MaxOpen

Settings ==
    [BROWSER : BrowserSettings, TRACE_ON_FAILURE : BOOLEAN,
     SCREENSHOT_EACH_STEP : BOOLEAN]

\* the worker before BeforeAll: pc is its position in the hook sequence
\* (start, idle, steps, afterStep, after, end); name, stepIndex, status, ran
\* and attached belong to the scenario attempt in progress; own is what its
\* Before hook created and actor the page the step modules' page actors are
\* bound to; used logs which attempt's step used which page
InitHooks ==
    [pc |-> "start",
     workerId |-> "unset",      \* process.env.CUCUMBER_WORKER_ID
     previous |-> TRUE,         \* the previous run's artifacts are on disk
     tree |-> FALSE,            \* the artifact directory tree exists
     attempt |-> 0,             \* scenario attempts started
     name |-> NoName,           \* world._scenarioName
     stepIndex |-> 0,           \* world._stepIndex
     status |-> "UNKNOWN",      \* scenario.result.status so far
     ran |-> 0,                 \* steps of the attempt executed
     own |-> [browser |-> Null, context |-> Null, page |-> Null],
     actor |-> Null,
     used |-> {},
     launches |-> 0,            \* browser processes the hooks launched
     attached |-> {},           \* media attached to the attempt's report record
     stepShot |-> NoFile,       \* the file the last AfterStep hook wrote
     stepWarns |-> {},          \* and the warnings it logged
     after |-> [ran |-> FALSE]] \* the last After hook: what it met and did

\* one worker process on its machine: process.pid, the millisecond clock
\* Date.now() reads, the artifact files written so far, each with the process
\* that wrote it, and the files that were written over
InitOs ==
    [pid |-> "pid-1",
     now |-> 0,
     files |-> {},
     clobbered |-> {},
     otherStop |-> -1]   \* the clock at the other worker's last tracing.stop

\* globalSetup() before it starts: pc is its position (start, newContext,
\* newPage, goto, search, settle, loaded, save, catch, finally, done)
InitSetup ==
    [pc |-> "start",
     browser |-> "none",     \* the browser it launched: none, open or closed
     list |-> 0,             \* the candidate list being searched, 1 to 4
     probed |-> 0,           \* candidates of that list probed so far
     acted |-> 0,            \* candidates of that list clicked or filled
     matched |-> FALSE,      \* a candidate of that list was acted on without error
     lastProbe |-> "none",   \* how the last isVisible probe ended
     found |-> [l \in 1 .. 4 |-> "pending"],
                             \* how each list's loop ended: matched, notVisible
                             \* (no candidate found visible) or actFailed
     failedAt |-> "none",    \* the stage whose error entered the catch block
     writes |-> 0,           \* context.storageState({ path }) calls issued
     saved |-> 0,            \* those of them that wrote the file
     logged |-> {},          \* messages of the console the model follows
     outcome |-> "pending"]  \* the promise: pending, resolved or rejected

\* process.pid of the other worker
OtherPid == "pid-2"

\* the worker processes of a parallel run
Procs == {InitOs.pid, OtherPid}

\* BeforeAll: `!workerId || workerId === '0'`
isMainWorker(workerId) == workerId = "unset" \/ workerId = "0"

\* BeforeAll clearing the directory of the session-state file as well
clearDirs_WithStorage == <<"allure-results", "test-results", "logs", "storage">>

\* the directories BeforeAll clears on the main worker, and the ones every
\* worker makes sure of
clearDirs == <<"allure-results", "test-results", "logs">>
dirs == <<"test-results/screenshots", "test-results/videos", "test-results/traces",
          "reports", "allure-results", "logs">>

\* the directory the session-state file is kept in: the default of
\* STORAGE_STATE_PATH is storage/auth.json
StorageDir == "storage"

\* path.dirname within the artifact tree
Parent(d) ==
    IF d \in {"test-results/screenshots", "test-results/videos", "test-results/traces"}
    THEN "test-results" ELSE d

\* d is dirPath or lies in it
Under(d, dirPath) == d = dirPath \/ Parent(d) = dirPath

\* the directories and files a previous run left: a file is [dir, by], `by`
\* the process that wrote it, "previous" for what a previous run wrote
PreviousRun ==
    [dirs |-> {dirs[k] : k \in DOMAIN dirs} \cup {"test-results"},
     files |-> {[dir |-> d, by |-> "previous"] :
                  d \in {"test-results/screenshots", "reports", "logs"}}]

\* a run at its start: the file system of the artifact directories, the two
\* worker processes before their BeforeAll hook, and what happened to the
\* artifacts: the directories cleared and by whom, the files of this run that
\* another worker's cleanup removed, the writes that found no directory
InitSuite ==
    [fs |-> PreviousRun,
     w |-> [p \in Procs |->
              [id |-> IF p = OtherPid THEN "1" ELSE "0",
                                  \* process.env.CUCUMBER_WORKER_ID
               pc |-> "start",    \* start, clear, ensure, run, write, aborted
               i |-> 1,           \* position in the loop over clearDirs or dirs
               ensured |-> {},    \* directories its second loop went through
               log |-> {},        \* what clearDirectory logged
               rmErrors |-> {},   \* the directories whose rmSync threw
               target |-> "none", \* the directory of the artifact being written
               written |-> 0]],   \* artifacts written
     cleared |-> {},
     lost |-> {},
     failed |-> {}]

\* safeAction(action, actionName, retries) as it is entered: `attempt` is the
\* loop variable, `tried` the outcomes of the invocations of the action so
\* far, lastError what the catch block kept (NoError for null), pc the
\* position (loop, sleep, returned, threw)
NoError == [error |-> "null", of |-> 0, wrapped |-> FALSE]

InitSafeAction ==
    [pc |-> "loop",
     retries |-> 1,          \* the default of the parameter
     attempt |-> 1,
     tried |-> <<>>,
     lastError |-> NoError,
     returned |-> 0,         \* the attempt whose result was returned
     thrown |-> NoError]     \* what `throw lastError` threw

\* ENV.DEFAULT_TIMEOUT and the polling interval, in the milliseconds of the
\* clock (DEFAULT_TIMEOUT=2 in the environment, interval passed as 1)
DefaultTimeout == 2
Interval == 1

\* waitForCondition(condition, timeout, interval) as it is entered: pc is the
\* position (start, check, eval, sleep, returned, threw)
InitWait ==
    [pc |-> "start",
     timeout |-> 0,          \* the argument, 0 for an absent one
     waitTimeout |-> 0,
     startTime |-> 0,
     wakeAt |-> 0,           \* when the setTimeout of the loop fires
     evals |-> 0,            \* evaluations of the condition started
     last |-> "none",        \* how the last evaluation ended
     endedAt |-> 0,          \* the clock when that evaluation ended
     message |-> "none"]     \* the message of the Error thrown

\* two callers of the manager in one process that do not await each other
Callers == {"first", "second"}

\* the callers before their calls: pc is idle, launch (awaiting the engine's
\* launch()), newContext (createContext past its launchBrowser), done or
\* failed; browser is the handle launchBrowser gave the caller
InitRace ==
    [c \in Callers |-> [op |-> "none", pc |-> "idle", browser |-> Null]]

\* the module-level page actors of the step definition files
Actors == {"nav.homePage", "nav.navigation", "content.homePage", "content.aboutPage",
           "trading.tradingPage"}

\* a worker before its first scenario: the actors are undefined; k is the
\* scenario running and prev the one before it, step the next step of k,
\* last the actor the last step used and the page it was bound to, misuse
\* the uses of an actor not bound to the running scenario's page
InitScenarios ==
    [pc |-> "idle",          \* idle, steps, after
     k |-> 0,
     prev |-> 0,
     step |-> 1,
     ran |-> 0,              \* scenarios run
     actors |-> [a \in Actors |-> Null],
     last |-> [text |-> "none", actor |-> "none", page |-> Null],
     misuse |-> {}]

Called(op, r) ==
    /\ WithinBounds(r.m)
    /\ mgr' = r.m
    /\ lastCall' = [op |-> op, res |-> r.res, ret |-> r.ret, file |-> r.file,
                    warns |-> r.warns, closes |-> r.closes,
                    pre |-> Handles(mgr), tracing |-> Tracing(mgr),
                    launched |-> DOMAIN r.m.browsers \ DOMAIN mgr.browsers # {},
                    closed |-> Closed(mgr, r.m)]

Call(op, r) ==
    /\ Called(op, r)
    /\ UNCHANGED <<ENV, storageFile, hk, gs, os, su, sa, wc, rc, sc>>

\* the outcomes a call can meet: the awaited calls named in `fields` may fail
Outcomes(fields) ==
    {e \in CallOutcomes : \A f \in DOMAIN e : f \notin fields => e[f]}

LaunchBrowser ==
    \E e \in Outcomes({"launch"}) : Call("launchBrowser", launchBrowser(mgr, e))
CreateContext ==
    \E e \in Outcomes({"launch", "newContext", "tracingStart"}) :
        Call("createContext", createContext(mgr, e))
CreatePage ==
    \E e \in Outcomes({"launch", "newContext", "tracingStart", "newPage"}) :
        Call("createPage", createPage(mgr, e))
GetPage == Call("getPage", getPage(mgr))
GetContext == Call("getContext", getContext(mgr))
GetBrowser == Call("getBrowser", getBrowser(mgr))
TakeScreenshot ==
    \E e \in Outcomes({"screenshot", "write"}), name \in ApiNames \cup {NoName} :
        Call("takeScreenshot", takeScreenshot(mgr, name, e))
SaveTrace ==
    \E e \in Outcomes({"tracingStop"}), name \in ApiNames :
        Call("saveTrace", saveTrace(mgr, name, e))
ClosePage == Call("closePage", closePage(mgr))
CloseContext == Call("closeContext", closeContext(mgr))
CloseBrowser == Call("closeBrowser", closeBrowser(mgr))
Cleanup == Call("cleanup", cleanup(mgr))

Init ==
    /\ ENV \in {s \in Settings : s.SCREENSHOT_EACH_STEP}
    /\ storageFile \in {"absent", "full"}
    /\ mgr = InitMgr
    /\ lastCall = NoCall
    /\ hk = InitHooks
    /\ gs = InitSetup
    /\ os = InitOs
    /\ sc = InitScenarios
    /\ rc = InitRace
    /\ wc = InitWait
    /\ su = InitSuite
    /\ sa = InitSafeAction

Next ==
    \/ LaunchBrowser
    \/ CreateContext
    \/ CreatePage
    \/ GetPage
    \/ GetContext
    \/ GetBrowser
    \/ TakeScreenshot
    \/ SaveTrace
    \/ ClosePage
    \/ CloseContext
    \/ CloseBrowser
    \/ Cleanup

Spec == Init /\ [][Next]_vars

-----------------------------------------------------------------------------
(* hooks/hooks.ts: one Cucumber worker running scenario attempts in sequence *)

\* outcomes of what a hook awaits beyond the manager's calls: rmSync of the
\* old artifacts, this.attach of the screenshot, existsSync of the trace
\* file, readFileSync and this.attach of the trace
HookOutcomes == [rm : BOOLEAN, attach : BOOLEAN, exists : BOOLEAN, attachTrace : BOOLEAN]

\* the outcomes a hook can meet: what is named in `fields` may fail
HookMeets(fields) ==
    {x \in HookOutcomes : \A f \in DOMAIN x : f \notin fields => x[f]}

\* BeforeAll: the main worker clears the old artifacts (errors are logged and
\* ignored), every worker creates the directory tree
BeforeAll ==
    /\ hk.pc = "start"
    /\ \E x \in HookMeets({"rm"}) :
         /\ hk' = [hk EXCEPT !.pc = "idle",
                              !.previous = IF isMainWorker(hk.workerId) /\ x.rm
                                           THEN FALSE ELSE @,
                              !.tree = TRUE]
         /\ storageFile' = IF isMainWorker(hk.workerId) /\ x.rm
                               /\ \E k \in DOMAIN clearDirs :
                                      Under(StorageDir, clearDirs[k])
                            THEN "absent" ELSE storageFile
    /\ UNCHANGED <<ENV, mgr, lastCall, gs, os, su, sa, wc, rc, sc>>

\* what the Before hook leaves, r1, r2 and r3 being the completions of its
\* three calls: an error of a call ends the hook, the later calls are not made
BeforeResult(r1, r2, r3) ==
    LET none == [browser |-> Null, context |-> Null, page |-> Null]
    IN  IF r1.res # "ok" THEN [m |-> r1.m, res |-> r1.res, own |-> none]
        ELSE IF r2.res # "ok"
        THEN [m |-> r2.m, res |-> r2.res, own |-> [none EXCEPT !.browser = r1.ret]]
        ELSE IF r3.res # "ok"
        THEN [m |-> r3.m, res |-> r3.res,
              own |-> [none EXCEPT !.browser = r1.ret, !.context = r2.ret]]
        ELSE [m |-> r3.m, res |-> "ok",
              own |-> [browser |-> r1.ret, context |-> r2.ret, page |-> r3.ret]]

\* the body of the Before hook: [m, res, own], own being the handles its three
\* calls returned
Before(m, e) ==
    LET r1 == launchBrowser(m, e)
        r2 == createContext(r1.m, e)
        r3 == createPage(r2.m, e)
    IN  BeforeResult(r1, r2, r3)

\* a scenario attempt starts with a new world (the After hook ends the old
\* one); a Before hook that throws fails the scenario and its steps are
\* skipped, the After hook still runs
BeforeHook ==
    /\ hk.pc = "idle"
    /\ hk.attempt < MaxScenarios
    /\ \E name \in ScenarioNames,
          e \in Outcomes({"launch", "newContext", "tracingStart", "newPage"}) :
         \E r \in {Before(mgr, e)} :
            /\ WithinBounds(r.m)
            /\ mgr' = r.m
            /\ hk' = [hk EXCEPT
                        !.pc = IF r.res = "ok" THEN "steps" ELSE "after",
                        !.attempt = @ + 1,
                        !.name = name,
                        !.stepIndex = 0,
                        !.status = IF r.res = "ok" THEN "PASSED" ELSE "FAILED",
                        !.ran = 0,
                        !.own = r.own,
                        !.launches = @ + Cardinality(DOMAIN r.m.browsers \ DOMAIN mgr.browsers),
                        !.attached = {},
                        !.after = [ran |-> FALSE]]
    /\ UNCHANGED <<ENV, storageFile, lastCall, gs, os, su, sa, wc, rc, sc>>

\* page actors that are bound once and kept: `if (!actor) bind()` in the first
\* step as well
StepPage_BoundOnce(m, h, kind) ==
    IF h.actor # Null THEN h.actor ELSE getPage(m).ret

\* the page a step works on: the first step of a scenario ('Given I am on
\* ...') takes getPage() and binds the module's page actors to it, later steps
\* go through the actors or take getPage() again
StepPage(m, h, kind) ==
    IF kind = "actor" THEN h.actor ELSE getPage(m).ret

\* a step runs: it passes or fails, by what the page shows
Step ==
    /\ hk.pc = "steps"
    /\ hk.ran < MaxSteps
    /\ \E kind \in {"given", "actor", "direct"}, passes \in BOOLEAN :
         LET p == StepPage(mgr, hk, kind)
             ok == passes /\ PageLive(mgr, p)
         IN /\ kind = "given" <=> hk.ran = 0
            /\ hk' = [hk EXCEPT
                        !.pc = "afterStep",
                        !.ran = @ + 1,
                        !.actor = IF kind = "given" THEN p ELSE @,
                        !.used = @ \cup {[attempt |-> hk.attempt, page |-> p,
                                          context |-> IF PageLive(mgr, p)
                                                      THEN mgr.pages[p] ELSE Null,
                                          browser |-> mgr.browser]},
                        !.status = IF ok THEN @ ELSE "FAILED"]
            /\ mgr' = [mgr EXCEPT !.held = @ \cup {<<"page", p>>}
                                       \cup (IF PageLive(mgr, p)
                                             THEN {<<"context", mgr.pages[p]>>}
                                             ELSE {})]
    /\ UNCHANGED <<ENV, storageFile, lastCall, gs, os, su, sa, wc, rc, sc>>

\* pickleStep.text of the steps of a scenario, in their order (those of
\* 'Validate clicking Sign In redirects to login page')
pickleStepText(n) ==
    CASE n = 1 -> "I am on the MultiBank home page"
      [] n = 2 -> "I click the Sign In button"
      [] OTHER -> "the URL should contain \"login\""

\* .replace(/[^a-zA-Z0-9_-]+/g, '_').replace(/_+/g, '_').replace(/^_|_$/g, '')
\* on those texts
sanitizedStepName(text) ==
    CASE text = "I am on the MultiBank home page" -> "I_am_on_the_MultiBank_home_page"
      [] text = "I click the Sign In button" -> "I_click_the_Sign_In_button"
      [] OTHER -> "the_URL_should_contain_login"

\* the sanitised name of a step screenshot: scenario name, step index,
\* outcome and step text
StepShotName(name, stepIndex, status, stepName) ==
    <<safeScenarioName(name), stepIndex, status, sanitizedStepName(stepName)>>

\* what AfterStep does once past its SCREENSHOT_EACH_STEP test: the index
\* advances, a screenshot is taken and attached; an error is logged and
\* swallowed
AfterStepCapture(h, m, e, x) ==
    LET stepIndex == h.stepIndex + 1
        r == takeScreenshot(m, StepShotName(h.name, stepIndex, h.status,
                                            pickleStepText(h.ran)), e)
    IN  [h EXCEPT
           !.stepIndex = stepIndex,
           !.stepShot = r.file,
           !.stepWarns = IF r.res = "ok" /\ x.attach THEN {}
                         ELSE {"Failed to capture step screenshot"},
           !.attached = IF r.res = "ok" /\ x.attach
                        THEN @ \cup {"step image/png"} ELSE @]

\* AfterStep without its `if (!ENV.SCREENSHOT_EACH_STEP) return`
AfterStep_Ungated ==
    /\ hk.pc = "afterStep"
    /\ \E e \in Outcomes({"screenshot", "write"}), x \in HookMeets({"attach"}) :
         hk' = [AfterStepCapture(hk, mgr, e, x) EXCEPT
                  !.pc = IF hk.status = "FAILED" THEN "after" ELSE "steps"]
    /\ UNCHANGED <<ENV, storageFile, mgr, lastCall, gs, os, su, sa, wc, rc, sc>>

\* AfterStep: nothing unless SCREENSHOT_EACH_STEP
AfterStep ==
    /\ hk.pc = "afterStep"
    /\ \E e \in Outcomes({"screenshot", "write"}), x \in HookMeets({"attach"}) :
         hk' = [(IF ~ENV.SCREENSHOT_EACH_STEP THEN hk
                 ELSE AfterStepCapture(hk, mgr, e, x)) EXCEPT
                  !.pc = IF hk.status = "FAILED" THEN "after" ELSE "steps"]
    /\ UNCHANGED <<ENV, storageFile, mgr, lastCall, gs, os, su, sa, wc, rc, sc>>

\* the scenario has no more steps
StepsDone ==
    /\ hk.pc = "steps"
    /\ hk.ran > 0
    /\ hk' = [hk EXCEPT !.pc = "after"]
    /\ UNCHANGED <<ENV, storageFile, mgr, lastCall, gs, os, su, sa, wc, rc, sc>>

\* the After hook without its try / catch around saveTrace
After_NoTryAroundTrace(m, scenario, e, x) ==
    LET failed == scenario.status = "FAILED"
        shot == takeScreenshot(m, replaceWhitespace(scenario.name), e)
        shotAttached == failed /\ shot.res = "ok" /\ x.attach
        tr == saveTrace(m, scenario.name, e)
        r1 == closePage(tr.m)
        r2 == closeContext(r1.m)
    IN  IF tr.res # "ok"
        THEN [m |-> tr.m, threw |-> TRUE, warns |-> {},
              attached |-> IF shotAttached THEN {"image/png"} ELSE {},
              shot |-> shot.res, trace |-> tr.res, zip |-> "skipped",
              file |-> shot.file]
        ELSE [m |-> r2.m, threw |-> FALSE, warns |-> {},
              attached |-> IF shotAttached THEN {"image/png"} ELSE {},
              shot |-> shot.res, trace |-> tr.res, zip |-> "skipped",
              file |-> shot.file]

\* the After hook taking the final screenshot of passed scenarios only
After_ShotWhenPassed(m, scenario, e, x) ==
    LET passed == scenario.status # "FAILED"
        shot == takeScreenshot(m, replaceWhitespace(scenario.name), e)
        r2 == closeContext(closePage(m).m)
    IN  [m |-> r2.m, threw |-> FALSE, warns |-> {},
         attached |-> IF passed /\ shot.res = "ok" /\ x.attach
                      THEN {"image/png"} ELSE {},
         shot |-> IF passed THEN shot.res ELSE "skipped", trace |-> "ok",
         zip |-> "skipped", file |-> shot.file]

\* the body of the After hook: what it leaves, whether it threw, the warnings
\* it logged, what it attached, how takeScreenshot and saveTrace ended
After(m, scenario, e, x) ==
    LET failed == scenario.status = "FAILED"
        shot == takeScreenshot(m, replaceWhitespace(scenario.name), e)
        shotAttached == failed /\ shot.res = "ok" /\ x.attach
        warn1 == IF failed /\ ~shotAttached
                 THEN {"Failed to capture screenshot"} ELSE {}
        tr == saveTrace(m, scenario.name, e)
        tracePath == IF tr.res = "ok" THEN tr.ret ELSE Null
        warn2 == IF tr.res # "ok" THEN {"Failed to save trace"} ELSE {}
        readTrace == failed /\ tracePath # Null /\ x.exists
        warn3 == IF readTrace /\ ~x.attachTrace
                 THEN {"Failed to attach trace"} ELSE {}
        r1 == closePage(tr.m)
        r2 == closeContext(r1.m)
        out == [m |-> r2.m, threw |-> FALSE,
                warns |-> warn1 \cup warn2 \cup warn3,
                attached |-> (IF shotAttached THEN {"image/png"} ELSE {})
                             \cup (IF readTrace /\ x.attachTrace
                                   THEN {"application/zip"} ELSE {}),
                shot |-> IF failed THEN shot.res ELSE "skipped",
                trace |-> tr.res,
                zip |-> IF ~readTrace THEN "skipped"
                        ELSE IF x.attachTrace THEN "attached" ELSE "failed",
                file |-> IF failed THEN shot.file ELSE NoFile]
    IN  IF r1.res # "ok" THEN [out EXCEPT !.m = r1.m, !.threw = TRUE]
        ELSE IF r2.res # "ok" THEN [out EXCEPT !.m = r1.m, !.threw = TRUE]
        ELSE out

AfterHook ==
    /\ hk.pc = "after"
    /\ \E e \in Outcomes({"screenshot", "write", "tracingStop"}),
          x \in HookMeets({"attach", "exists", "attachTrace"}) :
         LET r == After(mgr, hk, e, x)
         IN /\ mgr' = r.m
            /\ hk' = [hk EXCEPT
                        !.pc = "idle",
                        !.name = NoName,
                        !.stepIndex = 0,
                        !.ran = 0,
                        !.stepShot = NoFile,
                        !.stepWarns = {},
                        !.status = IF r.threw THEN "FAILED" ELSE @,
                        !.attached = @ \cup r.attached,
                        !.after = [ran |-> TRUE, threw |-> r.threw, warns |-> r.warns,
                                   shot |-> r.shot, trace |-> r.trace, zip |-> r.zip,
                                   met |-> [screenshot |-> e.screenshot,
                                            write |-> e.write, attach |-> x.attach],
                                   pre |-> Handles(mgr)]]
    /\ UNCHANGED <<ENV, storageFile, lastCall, gs, os, su, sa, wc, rc, sc>>

\* AfterAll: the suite is over, cleanup()
AfterAll ==
    /\ hk.pc = "idle"
    /\ LET r == cleanup(mgr)
       IN /\ mgr' = r.m
          /\ hk' = [hk EXCEPT !.pc = "end"]
    /\ UNCHANGED <<ENV, storageFile, lastCall, gs, os, su, sa, wc, rc, sc>>

HookInit ==
    /\ ENV \in {s \in Settings : s.BROWSER = "chromium"}
    /\ storageFile \in {"absent", "full"}
    /\ mgr = InitMgr
    /\ lastCall = NoCall
    /\ hk \in {[InitHooks EXCEPT !.workerId = w] : w \in {"unset", "0", "1"}}
    /\ gs = InitSetup
    /\ os = InitOs
    /\ sc = InitScenarios
    /\ rc = InitRace
    /\ wc = InitWait
    /\ su = InitSuite
    /\ sa = InitSafeAction

HookNext ==
    \/ BeforeAll
    \/ BeforeHook
    \/ Step
    \/ AfterStep
    \/ StepsDone
    \/ AfterHook
    \/ AfterAll

HookSpec == HookInit /\ [][HookNext]_vars

-----------------------------------------------------------------------------
(* Two worker processes writing artifacts at the same time: this one through *)
(* its manager, the other one through the same naming code                   *)

\* the names the After hook passes to takeScreenshot
ShotNames == {replaceWhitespace(n) : n \in ScenarioNames}

\* a file written at `path` by process `by`: a file already there is written
\* over
Written(o, path, by) ==
    [o EXCEPT !.files = @ \cup {[path |-> path, by |-> by]},
              !.clobbered = IF \E f \in o.files : f.path = path
                            THEN @ \cup {path} ELSE @]

\* a manager call of this worker, the file it wrote recorded. Date.now() is
\* read before tracing.stop() is awaited: stopping the recording and writing
\* the archive takes longer than the clock's millisecond, so the clock has
\* moved on when saveTrace returns
WorkerCall(op, r) ==
    /\ Called(op, r)
    /\ os' = IF r.file = NoFile THEN os
             ELSE [Written(os, r.file, os.pid) EXCEPT
                     !.now = IF op = "saveTrace" THEN @ + 1 ELSE @]
    /\ UNCHANGED <<ENV, storageFile, hk, gs, su, sa, wc, rc, sc>>

\* as the Before hook does: browser, context (recording) and page
WorkerCreatePage ==
    /\ mgr.context = Null
    /\ \E e \in Outcomes({}) : WorkerCall("createPage", createPage(mgr, e))

WorkerTakeScreenshot ==
    \E name \in ShotNames, e \in Outcomes({"write"}) :
        WorkerCall("takeScreenshot", takeScreenshot(mgr, name, e))

WorkerSaveTrace ==
    /\ os.now < MaxTime
    /\ \E name \in ScenarioNames, e \in Outcomes({"tracingStop"}) :
         WorkerCall("saveTrace", saveTrace(mgr, name, e))

WorkerCloseContext ==
    /\ mgr.context # Null
    /\ WorkerCall("closeContext", closeContext(mgr))

\* the other worker's manager writes a screenshot, or a trace; its stop takes
\* time as well, so it writes one trace per reading of the clock at most
OtherWorkerWrites ==
    /\ \E name \in ScenarioNames, trace \in BOOLEAN :
         IF trace
         THEN /\ os.otherStop < os.now
              /\ os' = [Written(os, TracePath(name, OtherPid, os.now), OtherPid)
                          EXCEPT !.otherStop = os.now]
         ELSE os' = Written(os, ScreenshotPath(replaceWhitespace(name)), OtherPid)
    /\ UNCHANGED <<ENV, storageFile, mgr, lastCall, hk, gs, su, sa, wc, rc, sc>>

\* a millisecond passes
Tick ==
    /\ os.now < MaxTime
    /\ os' = [os EXCEPT !.now = @ + 1]
    /\ UNCHANGED <<ENV, storageFile, mgr, lastCall, hk, gs, su, sa, wc, rc, sc>>

WorkerInit ==
    /\ ENV \in {s \in Settings : s.BROWSER = "chromium" /\ s.TRACE_ON_FAILURE
                                  /\ s.SCREENSHOT_EACH_STEP}
    /\ storageFile \in {"absent", "full"}
    /\ mgr = InitMgr
    /\ lastCall = NoCall
    /\ hk = InitHooks
    /\ gs = InitSetup
    /\ os = InitOs
    /\ sc = InitScenarios
    /\ rc = InitRace
    /\ wc = InitWait
    /\ su = InitSuite
    /\ sa = InitSafeAction

WorkerNext ==
    \/ WorkerCreatePage
    \/ WorkerTakeScreenshot
    \/ WorkerSaveTrace
    \/ WorkerCloseContext
    \/ OtherWorkerWrites
    \/ Tick

WorkerSpec == WorkerInit /\ [][WorkerNext]_vars

\* C18: artifact writes never target the same file: no file of the artifact
\* directories, screenshot or trace, is written over by another worker or by
\* a later attempt of a scenario with the same name.
C18_NoArtifactOverwritten ==
    os.clobbered = {}

\* the trace files written so far
TraceFiles == {f \in os.files : f.path[1] = "test-results/traces"}

\* C19: trace paths of scenarios with the same name never coincide: no trace
\* file is written over, two paths written by different processes differ in
\* the process id and two written by one process differ in the timestamp.
C19_TracePathsDistinct ==
    /\ \A f \in TraceFiles : f.path \notin os.clobbered
    /\ \A f, g \in TraceFiles :
          f # g => /\ f.by # g.by => f.path[3] # g.path[3]
                   /\ f.by = g.by => f.path[4] # g.path[4]

\* two traces of this worker and one the other worker wrote in the same
\* millisecond as one of them, all under one scenario name
C19_Witness ==
    \E f, g, h \in TraceFiles :
        /\ f # g /\ f.by = os.pid /\ g.by = os.pid
        /\ h.by = OtherPid
        /\ h.path[4] = f.path[4]
        /\ f.path[2] = g.path[2] /\ g.path[2] = h.path[2]

-----------------------------------------------------------------------------
(* config/global-setup.ts: the login bootstrapper, one awaited call per step *)

\* the lengths of loginSelectors, emailSelectors, passwordSelectors and
\* submitSelectors
NumLoginSelectors == 9
NumEmailSelectors == 6
NumPasswordSelectors == 3
NumSubmitSelectors == 6

Candidates(list) ==
    CASE list = 1 -> NumLoginSelectors
      [] list = 2 -> NumEmailSelectors
      [] list = 3 -> NumPasswordSelectors
      [] list = 4 -> NumSubmitSelectors

SetupStep(g) ==
    /\ gs' = g
    /\ UNCHANGED <<ENV, mgr, lastCall, hk, os, su, sa, wc, rc, sc>>

\* chromium.launch(): a failure rejects the promise, nothing was launched
SetupLaunch ==
    /\ gs.pc = "start"
    /\ \E ok \in BOOLEAN :
         SetupStep(IF ok THEN [gs EXCEPT !.pc = "newContext", !.browser = "open"]
                   ELSE [gs EXCEPT !.pc = "done", !.outcome = "rejected"])
    /\ UNCHANGED storageFile

\* browser.newContext() and context.newPage(), before the try block: a
\* failure rejects the promise there and then
SetupNewContext ==
    /\ gs.pc = "newContext"
    /\ \E ok \in BOOLEAN :
         SetupStep(IF ok THEN [gs EXCEPT !.pc = "newPage"]
                   ELSE [gs EXCEPT !.pc = "done", !.outcome = "rejected"])
    /\ UNCHANGED storageFile

SetupNewPage ==
    /\ gs.pc = "newPage"
    /\ \E ok \in BOOLEAN :
         SetupStep(IF ok THEN [gs EXCEPT !.pc = "goto"]
                   ELSE [gs EXCEPT !.pc = "done", !.outcome = "rejected"])
    /\ UNCHANGED storageFile

\* page.goto(baseUrl): a timeout or any other error goes to the catch block
SetupGoto ==
    /\ gs.pc = "goto"
    /\ \E ok \in BOOLEAN :
         SetupStep(IF ok THEN [gs EXCEPT !.pc = "search", !.list = 1]
                   ELSE [gs EXCEPT !.pc = "catch", !.failedAt = "goto"])
    /\ UNCHANGED storageFile

\* where the flow goes once a list's loop is over: the login list is followed
\* by the `if (!loginClicked)` message and a wait, the submit list by a wait
\* and the load state, the others by the next list
AfterList(g) ==
    LET how == IF g.matched THEN "matched"
               ELSE IF g.acted = 0 THEN "notVisible" ELSE "actFailed"
        g1 == [g EXCEPT !.found[g.list] = how]
    IN  IF g.list = 1
        THEN [g1 EXCEPT !.pc = "settle",
                        !.logged = IF g.matched THEN @
                                   ELSE @ \cup {"No login button found"}]
        ELSE IF g.list = 4 THEN [g1 EXCEPT !.pc = "loaded"]
        ELSE [g1 EXCEPT !.list = @ + 1, !.probed = 0, !.acted = 0, !.matched = FALSE]

\* the selector loop ending one candidate short of its list
Probe_StopsEarly(g, probe, actOk) ==
    LET g1 == [g EXCEPT !.probed = @ + 1,
                        !.acted = IF probe = "visible" THEN @ + 1 ELSE @,
                        !.matched = probe = "visible" /\ actOk,
                        !.lastProbe = probe]
    IN  IF g1.matched \/ g1.probed >= Candidates(g.list) - 1 THEN AfterList(g1) ELSE g1

\* the selector loop without its try / catch: an error of isVisible leaves
\* the loop for the catch block of the flow
Probe_ProbeErrorPropagates(g, probe, actOk) ==
    LET g1 == [g EXCEPT !.probed = @ + 1,
                        !.acted = IF probe = "visible" THEN @ + 1 ELSE @,
                        !.matched = probe = "visible" /\ actOk,
                        !.lastProbe = probe]
    IN  IF probe = "throws" THEN [g1 EXCEPT !.pc = "catch", !.failedAt = "search"]
        ELSE IF g1.matched \/ g1.probed = Candidates(g.list) THEN AfterList(g1)
        ELSE g1

\* the selector loop throwing 'not found' when its list is exhausted
Probe_ThrowsAtExhaustion(g, probe, actOk) ==
    LET g1 == [g EXCEPT !.probed = @ + 1,
                        !.acted = IF probe = "visible" THEN @ + 1 ELSE @,
                        !.matched = probe = "visible" /\ actOk,
                        !.lastProbe = probe]
    IN  IF g1.matched THEN AfterList(g1)
        ELSE IF g1.probed = Candidates(g.list)
        THEN [g1 EXCEPT !.pc = "catch", !.failedAt = "search"]
        ELSE g1

\* one turn of a selector loop: the next candidate is probed with isVisible;
\* found visible it is clicked or filled and the loop breaks; an error of the
\* probe or of the click or fill is swallowed and the loop goes on
Probe(g, probe, actOk) ==
    LET g1 == [g EXCEPT !.probed = @ + 1,
                        !.acted = IF probe = "visible" THEN @ + 1 ELSE @,
                        !.matched = probe = "visible" /\ actOk,
                        !.lastProbe = probe]
    IN  IF g1.matched \/ g1.probed = Candidates(g.list) THEN AfterList(g1) ELSE g1

SetupProbe ==
    /\ gs.pc = "search"
    /\ \E probe \in {"visible", "hidden", "throws"}, actOk \in BOOLEAN :
         /\ probe # "visible" => actOk
         /\ SetupStep(Probe(gs, probe, actOk))
    /\ UNCHANGED storageFile

\* page.waitForTimeout(3000) after the login list, then the email list
SetupSettle ==
    /\ gs.pc = "settle"
    /\ \E ok \in BOOLEAN :
         SetupStep(IF ok THEN [gs EXCEPT !.pc = "search", !.list = 2, !.probed = 0,
                                         !.acted = 0, !.matched = FALSE]
                   ELSE [gs EXCEPT !.pc = "catch", !.failedAt = "settle"])
    /\ UNCHANGED storageFile

\* page.waitForTimeout(5000) and page.waitForLoadState after the submit list
SetupLoaded ==
    /\ gs.pc = "loaded"
    /\ \E ok \in BOOLEAN :
         SetupStep(IF ok THEN [gs EXCEPT !.pc = "save"]
                   ELSE [gs EXCEPT !.pc = "catch", !.failedAt = "loaded"])
    /\ UNCHANGED storageFile

\* context.storageState({ path }) at the end of the try block
SetupSave ==
    /\ gs.pc = "save"
    /\ \E ok \in BOOLEAN :
         /\ SetupStep(IF ok THEN [gs EXCEPT !.pc = "finally", !.writes = @ + 1,
                                            !.saved = @ + 1]
                      ELSE [gs EXCEPT !.pc = "catch", !.writes = @ + 1,
                                      !.failedAt = "save"])
         /\ storageFile' = IF ok THEN "full" ELSE storageFile

\* the catch block without its second storageState call
SetupCatch_NoSave ==
    /\ gs.pc = "catch"
    /\ SetupStep([gs EXCEPT !.pc = "finally",
                            !.logged = @ \cup {"Global setup failed"}])
    /\ UNCHANGED storageFile

\* the catch block: the error is logged, the state is saved all the same and
\* a failure to save it is logged; nothing is thrown again
SetupCatch ==
    /\ gs.pc = "catch"
    /\ \E ok \in BOOLEAN :
         /\ SetupStep([gs EXCEPT
                         !.pc = "finally",
                         !.writes = @ + 1,
                         !.saved = IF ok THEN @ + 1 ELSE @,
                         !.logged = @ \cup {"Global setup failed"}
                                      \cup (IF ok THEN {}
                                            ELSE {"Failed to save storage state"})])
         /\ storageFile' = IF ok THEN "partial" ELSE storageFile

\* the finally block: browser.close(); the promise resolves
SetupFinally ==
    /\ gs.pc = "finally"
    /\ SetupStep([gs EXCEPT !.pc = "done", !.browser = "closed",
                             !.outcome = "resolved"])
    /\ UNCHANGED storageFile

SetupInit ==
    /\ ENV \in {s \in Settings : s.BROWSER = "chromium" /\ ~s.TRACE_ON_FAILURE
                                  /\ s.SCREENSHOT_EACH_STEP}
    /\ storageFile \in {"absent", "partial", "full"}
    /\ mgr = InitMgr
    /\ lastCall = NoCall
    /\ hk = InitHooks
    /\ gs = InitSetup
    /\ os = InitOs
    /\ sc = InitScenarios
    /\ rc = InitRace
    /\ wc = InitWait
    /\ su = InitSuite
    /\ sa = InitSafeAction

SetupNext ==
    \/ SetupLaunch
    \/ SetupNewContext
    \/ SetupNewPage
    \/ SetupGoto
    \/ SetupProbe
    \/ SetupSettle
    \/ SetupLoaded
    \/ SetupSave
    \/ SetupCatch
    \/ SetupFinally

SetupSpec == SetupInit /\ [][SetupNext]_vars

\* C10: the bootstrapper closes the browser it launched on every exit path:
\* when its promise is settled, no browser it launched is still open.
C10_BrowserAlwaysClosed ==
    gs.pc = "done" => gs.browser # "open"

\* C11: when the navigation times out or anything else throws in the login
\* flow, the bootstrapper attempts to save the context state and then ends in
\* a rejected outcome, not a successful one.
C11_FailureIsRejected ==
    (gs.pc = "done" /\ gs.failedAt # "none")
        => gs.writes >= 1 /\ gs.outcome = "rejected"

\* C12: on every path after the page is opened a storageState write is
\* attempted before the browser is closed, and a write that fails is logged
\* and never rejects the promise: only a failure before the page exists
\* rejects it, with no write attempted.
C12_WriteAttemptedAndFailureLogged ==
    /\ gs.browser = "closed" => gs.writes >= 1
    /\ gs.pc \in {"finally", "done"} /\ gs.outcome # "rejected"
          => /\ gs.writes >= 1
             /\ gs.failedAt = "save" => "Global setup failed" \in gs.logged
             /\ (gs.failedAt # "none" /\ gs.saved = 0)
                   <=> "Failed to save storage state" \in gs.logged
    /\ gs.writes > gs.saved => gs.outcome # "rejected"
    /\ gs.outcome = "rejected" => gs.writes = 0 /\ gs.list = 0

\* both writes were attempted and failed, the browser is closed and the
\* promise resolved
C12_Witness ==
    /\ gs.pc = "done" /\ gs.browser = "closed"
    /\ gs.failedAt = "save"
    /\ gs.writes = 2 /\ gs.saved = 0
    /\ gs.outcome = "resolved"

\* C13: a candidate list exhausted without a visible match is no failure: no
\* error of a search enters the catch block, the flow reaches its end without
\* throwing, and unless something else fails it writes the session-state file
\* once, in the try block.
C13_ExhaustionIsNotFailure ==
    /\ gs.failedAt # "search"
    /\ (gs.pc = "done" /\ \E l \in 1 .. 4 : gs.found[l] = "notVisible")
          => /\ gs.outcome = "resolved"
             /\ gs.writes >= 1
             /\ gs.failedAt = "none"
                   => gs.writes = 1 /\ gs.saved = 1 /\ storageFile = "full"

\* the password field never appears, everything else is found, and the file
\* is written
C13_Witness ==
    /\ gs.pc = "done"
    /\ gs.found = [l \in 1 .. 4 |-> IF l = 3 THEN "notVisible" ELSE "matched"]
    /\ gs.failedAt = "none"
    /\ storageFile = "full"

\* C14: in each list the first candidate found visible is the one acted on
\* and ends the search: at most one candidate of a list is acted on, and no
\* candidate is probed after one was.
C14_AtMostOneActedOn ==
    /\ gs.acted <= 1
    /\ gs.pc = "search" => gs.acted = 0

\* C15: a candidate whose probe throws is treated exactly like one that is not
\* visible: the turn of the loop leaves what the not-visible turn leaves, and
\* no turn of a search enters the catch block.
C15_ProbeErrorIsNotVisible ==
    [][gs.pc = "search"
         => /\ gs'.pc \in {"search", "settle", "loaded"}
            /\ gs'.failedAt = "none"
            /\ gs'.lastProbe = "throws"
                  => gs' = [Probe(gs, "hidden", TRUE) EXCEPT !.lastProbe = "throws"]]_vars

\* a probe of the email list threw and the search goes on
C15_Witness ==
    /\ gs.pc = "search" /\ gs.list = 2
    /\ gs.lastProbe = "throws"
    /\ gs.probed = 2

-----------------------------------------------------------------------------
(* Claims about the hooks, checked under HookSpec *)

\* C7: in one worker every step of a scenario attempt works on the page and
\* the context that the attempt's own Before hook created, both open; no page
\* or context is used by two attempts; and one browser launch serves them all.
C7_ScenarioIsolation ==
    /\ \A u \in hk.used :
          /\ u.page # Null /\ u.context # Null
          /\ u.attempt = hk.attempt /\ hk.pc \in {"steps", "afterStep", "after"}
                => /\ u.page = hk.own.page
                   /\ u.context = hk.own.context
                   /\ PageLive(mgr, u.page)
                   /\ mgr.pages[u.page] = u.context
    /\ \A u, v \in hk.used :
          /\ u.attempt # v.attempt => u.page # v.page /\ u.context # v.context
          /\ u.browser = v.browser
    /\ hk.launches <= 1

\* steps of two attempts have run
C7_Witness ==
    /\ \E u, v \in hk.used : u.attempt = 1 /\ v.attempt = 2
    /\ hk.pc = "after"
    /\ hk.ran = 2

\* C8: whatever the scenario's outcome and whatever fails among the final
\* screenshot, the trace save and the trace attachment, the After hook ends
\* without throwing, with the page and context handles null and nothing of
\* them left open, the browser handle as it was, and a warning logged for
\* each artifact step that failed.
C8_AfterAlwaysCloses ==
    (hk.pc = "idle" /\ hk.after.ran)
        => /\ ~hk.after.threw
           /\ mgr.page = Null /\ mgr.context = Null
           /\ DOMAIN mgr.pages = {} /\ DOMAIN mgr.contexts = {}
           /\ mgr.browser = hk.after.pre.browser
           /\ hk.after.shot \notin {"ok", "skipped"}
                 => "Failed to capture screenshot" \in hk.after.warns
           /\ hk.after.trace # "ok" => "Failed to save trace" \in hk.after.warns
           /\ hk.after.zip = "failed" => "Failed to attach trace" \in hk.after.warns

\* an After hook of a scenario with a page whose screenshot and trace save
\* both failed
C8_Witness ==
    /\ hk.pc = "idle" /\ hk.after.ran
    /\ hk.after.pre.page # Null /\ hk.after.pre.context # Null
    /\ hk.after.shot = "screenshotFailed"
    /\ hk.after.trace = "tracingStopFailed"

-----------------------------------------------------------------------------
(* Claims about the manager, checked under Spec *)

\* C1: launchBrowser() is idempotent. Called while a browser handle is live it
\* returns that handle, leaves it in place and launches no browser process,
\* whatever engine is configured; no call launches a process while a handle is
\* live, and a live handle is only replaced or dropped by closeBrowser() or
\* cleanup().
C1_LaunchIdempotent ==
    /\ (lastCall.op = "launchBrowser" /\ lastCall.pre.browser # Null)
          => /\ lastCall.res = "ok"
             /\ lastCall.ret = lastCall.pre.browser
             /\ mgr.browser = lastCall.pre.browser
    /\ lastCall.pre.browser # Null => ~lastCall.launched
    /\ (lastCall.pre.browser # Null /\ mgr.browser # lastCall.pre.browser)
          => lastCall.op \in {"closeBrowser", "cleanup"}

\* a second launchBrowser() under an unrecognised engine setting, served by the
\* chromium browser the first one launched
C1_Witness ==
    /\ lastCall.op = "launchBrowser"
    /\ lastCall.pre.browser # Null
    /\ lastCall.ret = mgr.browser
    /\ ENV.BROWSER = "edge"
    /\ mgr.browsers[mgr.browser] = "chromium"

\* C2: no operation is served by a torn-down handle. getPage() and
\* takeScreenshot() either fail with the manager's descriptive error or use a
\* page that is still open, in a context that is still open.
C2_NoTornDownHandle ==
    lastCall.op \in {"getPage", "takeScreenshot"}
        => \/ lastCall.res \in {"notInitialized", "pageNotAvailable"}
           \/ /\ PageLive(mgr, lastCall.pre.page)
              /\ ContextLive(mgr, mgr.pages[lastCall.pre.page])

\* C3: at most one context is open and at most one page is open in it, and
\* they are the ones the manager tracks: no earlier context or page stays open
\* untracked.
C3_AtMostOneContextAndPage ==
    /\ Cardinality(DOMAIN mgr.contexts) <= 1
    /\ Cardinality(DOMAIN mgr.pages) <= 1
    /\ DOMAIN mgr.contexts \subseteq {mgr.context}
    /\ DOMAIN mgr.pages \subseteq {mgr.page}

\* C4: each getter throws 'has not been initialized' exactly when its handle is
\* null, otherwise returns the handle the manager holds (never null), and
\* changes no handle.
GetterField(op) ==
    CASE op = "getPage" -> lastCall.pre.page
      [] op = "getContext" -> lastCall.pre.context
      [] op = "getBrowser" -> lastCall.pre.browser

C4_GettersFailFast ==
    lastCall.op \in {"getPage", "getContext", "getBrowser"}
        => /\ lastCall.res \in {"ok", "notInitialized"}
           /\ lastCall.res = "notInitialized" <=> GetterField(lastCall.op) = Null
           /\ lastCall.res = "ok"
                 => lastCall.ret = GetterField(lastCall.op) /\ lastCall.ret # Null
           /\ Handles(mgr) = lastCall.pre

\* getContext() throwing after the context was closed while the browser and a
\* page handle remain
C4_Witness ==
    /\ lastCall.op = "getContext"
    /\ lastCall.res = "notInitialized"
    /\ mgr.browser # Null
    /\ mgr.page # Null

\* C5: closePage(), closeContext(), closeBrowser() and cleanup() never throw,
\* from any state and in any order, and a close call whose handle is already
\* null changes no handle.
C5_TeardownNeverThrows ==
    /\ lastCall.op \in {"closePage", "closeContext", "closeBrowser", "cleanup"}
          => lastCall.res = "ok"
    /\ (lastCall.op = "closePage" /\ lastCall.pre.page = Null)
          => Handles(mgr) = lastCall.pre
    /\ (lastCall.op = "closeContext" /\ lastCall.pre.context = Null)
          => Handles(mgr) = lastCall.pre
    /\ (lastCall.op \in {"closeBrowser", "cleanup"} /\ lastCall.pre.browser = Null)
          => Handles(mgr) = lastCall.pre

\* closePage() on a page handle whose context was closed before it
C5_Witness ==
    /\ lastCall.op = "closePage"
    /\ lastCall.res = "ok"
    /\ lastCall.pre.page # Null
    /\ lastCall.pre.context = Null
    /\ mgr.page = Null

\* C6: with tracing enabled, a context that createContext() returns is
\* recording, no stop is issued on a context whose recording was stopped
\* already, and no context is closed with its recording not stopped.
C6_StoppedExactlyOnce ==
    ENV.TRACE_ON_FAILURE
        => /\ (lastCall.op = "createContext" /\ lastCall.res = "ok")
                 => mgr.contexts[lastCall.ret].tracing = "recording"
           /\ lastCall.op = "saveTrace" => lastCall.tracing # "stopped"
           /\ \A c \in lastCall.closed : c.tracing # "recording"

\* C17: createContext() succeeds whether or not the session-state file exists:
\* it fails only when the browser does (launch, newContext, tracing.start);
\* with the file absent the context is created without storage state and the
\* warning is logged, with the file present the context is given the file as
\* its storage state and nothing is warned of.
C17_ContextWithOrWithoutState ==
    lastCall.op = "createContext"
        => /\ lastCall.res \in {"ok", "launchFailed", "targetClosed",
                                "newContextFailed", "tracingStartFailed"}
           /\ lastCall.res = "ok"
                 => /\ mgr.context = lastCall.ret
                    /\ mgr.contexts[lastCall.ret].storageState <=> storageFile # "absent"
                    /\ NoStorageState \in lastCall.warns <=> storageFile = "absent"

\* a context created with no session-state file on disk
C17_Witness ==
    /\ lastCall.op = "createContext"
    /\ lastCall.res = "ok"
    /\ storageFile = "absent"
    /\ ~mgr.contexts[mgr.context].storageState
    /\ lastCall.warns = {NoStorageState}

\* C20: closeBrowser() and cleanup() close the live page, then the live
\* context, then the browser, each only if its handle is set, and leave the
\* three handles null with nothing open; after the AfterAll hook no browser
\* handle and no browser remains.
C20_TeardownOrder ==
    /\ lastCall.op \in {"closeBrowser", "cleanup"}
          => /\ lastCall.res = "ok"
             /\ Handles(mgr) = [browser |-> Null, context |-> Null, page |-> Null]
             /\ lastCall.closes =
                   (IF lastCall.pre.page # Null THEN <<"page">> ELSE <<>>)
                   \o (IF lastCall.pre.context # Null THEN <<"context">> ELSE <<>>)
                   \o (IF lastCall.pre.browser # Null THEN <<"browser">> ELSE <<>>)
             /\ DOMAIN mgr.browsers = {}
             /\ DOMAIN mgr.contexts = {} /\ DOMAIN mgr.pages = {}
    /\ hk.pc = "end" => mgr.browser = Null /\ DOMAIN mgr.browsers = {}

\* cleanup() with a page, a context and a browser live
C20_Witness ==
    /\ lastCall.op = "cleanup"
    /\ lastCall.closes = <<"page", "context", "browser">>
    /\ lastCall.pre.page # Null
    /\ mgr.browser = Null

\* C21: createContext() launches a browser first when the manager holds none
\* and createPage() creates a context first when it holds none, so createPage()
\* fails only when one of the browser's calls does, and after a successful
\* createPage() from any state the three handles are set, the page returned is
\* the tracked one, open in the tracked context, which is open in the tracked
\* browser: each was created on the one before it.
C21_LazyChain ==
    /\ (lastCall.op = "createContext" /\ lastCall.res = "ok")
          => /\ BrowserLive(mgr, mgr.browser)
             /\ lastCall.pre.browser = Null => lastCall.launched
             /\ mgr.contexts[lastCall.ret].browser = mgr.browser
    /\ lastCall.op = "createPage"
          => /\ lastCall.res \in {"ok", "launchFailed", "targetClosed",
                                  "newContextFailed", "tracingStartFailed",
                                  "newPageFailed"}
             /\ lastCall.res = "ok"
                   => /\ mgr.browser # Null /\ mgr.context # Null /\ mgr.page # Null
                      /\ lastCall.ret = mgr.page
                      /\ PageLive(mgr, mgr.page)
                      /\ mgr.pages[mgr.page] = mgr.context
                      /\ ContextLive(mgr, mgr.context)
                      /\ mgr.contexts[mgr.context].browser = mgr.browser
                      /\ BrowserLive(mgr, mgr.browser)
                      /\ lastCall.pre.browser = Null => lastCall.launched
                      /\ lastCall.pre.context # Null => mgr.context = lastCall.pre.context

\* createPage() on a manager that holds nothing: it launched the browser and
\* created the context on its way
C21_Witness ==
    /\ lastCall.op = "createPage"
    /\ lastCall.res = "ok"
    /\ lastCall.pre = [browser |-> Null, context |-> Null, page |-> Null]
    /\ lastCall.launched
    /\ mgr.pages[mgr.page] = mgr.context

-----------------------------------------------------------------------------
(* Suite start with `parallel: 2`: two worker processes run BeforeAll and   *)
(* then write artifacts, one file-system call at a time, in any interleaving *)

\* fs.rmSync(dirPath, { recursive: true, force: true })
rmSync(f, dirPath) ==
    [dirs |-> {d \in f.dirs : ~Under(d, dirPath)},
     files |-> {x \in f.files : ~Under(x.dir, dirPath)}]

\* fs.mkdirSync(dir, { recursive: true }): no error when it exists
mkdirSync(f, d) == [f EXCEPT !.dirs = @ \cup {d, Parent(d)}]

\* fs.writeFileSync / the appending of a log line, by process p
writeFile(f, d, p) == [f EXCEPT !.files = @ \cup {[dir |-> d, by |-> p]}]

\* clearDirectory without its try / catch: the error of rmSync is thrown
clearDirectory_NoCatch(f, dirPath, rmOk) ==
    IF dirPath \notin f.dirs THEN [fs |-> f, log |-> {}, threw |-> FALSE]
    ELSE IF rmOk
    THEN [fs |-> rmSync(f, dirPath), log |-> {<<"Cleared directory", dirPath>>},
          threw |-> FALSE]
    ELSE [fs |-> f, log |-> {}, threw |-> TRUE]

\* clearDirectory: the directory is removed when it exists; an error of
\* rmSync is logged and swallowed
clearDirectory(f, dirPath, rmOk) ==
    IF dirPath \notin f.dirs THEN [fs |-> f, log |-> {}, threw |-> FALSE]
    ELSE IF rmOk
    THEN [fs |-> rmSync(f, dirPath), log |-> {<<"Cleared directory", dirPath>>},
          threw |-> FALSE]
    ELSE [fs |-> f, log |-> {<<"Could not clear", dirPath>>}, threw |-> FALSE]

\* a step of worker p: its record and the file system afterwards
SuiteStep(p, w, f) ==
    /\ su' = [su EXCEPT
                !.w[p] = w,
                !.fs = f,
                !.cleared = @ \cup {[dir |-> d, id |-> su.w[p].id] :
                                       d \in su.fs.dirs \ f.dirs},
                !.lost = @ \cup {x \in su.fs.files \ f.files :
                                    x.by \in Procs \ {p}}]
    /\ UNCHANGED <<ENV, storageFile, mgr, lastCall, hk, gs, os, sa, wc, rc, sc>>

\* the logger module is loaded (it makes the logs directory) and BeforeAll
\* logs '=== Test Suite Starting ===' into logs/test-execution.log
SuiteStart(p) ==
    /\ su.w[p].pc = "start"
    /\ SuiteStep(p,
                 [su.w[p] EXCEPT !.pc = IF isMainWorker(su.w[p].id) THEN "clear" ELSE "ensure"],
                 writeFile(mkdirSync(su.fs, "logs"), "logs", p))

\* one turn of `for (const dir of clearDirs) clearDirectory(dir)`
SuiteClear(p) ==
    /\ su.w[p].pc = "clear"
    /\ \E rmOk \in BOOLEAN :
         \E r \in {clearDirectory(su.fs, clearDirs[su.w[p].i], rmOk)} :
            SuiteStep(p,
                      [su.w[p] EXCEPT
                         !.log = @ \cup r.log,
                         !.rmErrors = IF clearDirs[su.w[p].i] \in su.fs.dirs /\ ~rmOk
                                      THEN @ \cup {clearDirs[su.w[p].i]} ELSE @,
                         !.pc = IF r.threw THEN "aborted"
                                ELSE IF su.w[p].i = Len(clearDirs) THEN "ensure"
                                ELSE @,
                         !.i = IF r.threw THEN @
                               ELSE IF @ = Len(clearDirs) THEN 1 ELSE @ + 1],
                      r.fs)

\* one turn of `for (const dir of dirs) if (!existsSync(dir)) mkdirSync(dir)`
SuiteEnsure(p) ==
    /\ su.w[p].pc = "ensure"
    /\ LET d == dirs[su.w[p].i]
       IN SuiteStep(p,
                    [su.w[p] EXCEPT
                       !.ensured = @ \cup {d},
                       !.pc = IF su.w[p].i = Len(dirs) THEN "run" ELSE @,
                       !.i = IF @ = Len(dirs) THEN 1 ELSE @ + 1],
                    IF d \in su.fs.dirs THEN su.fs ELSE mkdirSync(su.fs, d))

\* takeScreenshot / saveTrace after BeforeAll: the artifact directory is
\* checked for and made when missing
ArtifactDir(p) ==
    /\ su.w[p].pc = "run"
    /\ su.w[p].written < MaxArtifacts
    /\ \E d \in {"test-results/screenshots", "test-results/traces"} :
         SuiteStep(p, [su.w[p] EXCEPT !.pc = "write", !.target = d],
                   IF d \in su.fs.dirs THEN su.fs ELSE mkdirSync(su.fs, d))

\* then the file is written: writeFileSync of the screenshot throws when the
\* directory is not there, tracing.stop makes the directory of its path
ArtifactWrite(p) ==
    /\ su.w[p].pc = "write"
    /\ LET d == su.w[p].target
           w == [su.w[p] EXCEPT !.pc = "run", !.target = "none", !.written = @ + 1]
       IN IF d \in su.fs.dirs
          THEN SuiteStep(p, w, writeFile(su.fs, d, p))
          ELSE IF d = "test-results/traces"
          THEN SuiteStep(p, w, writeFile(mkdirSync(su.fs, d), d, p))
          ELSE /\ su' = [su EXCEPT !.w[p] = w,
                                   !.failed = @ \cup {[dir |-> d, by |-> p]}]
               /\ UNCHANGED <<ENV, storageFile, mgr, lastCall, hk, gs, os, sa, wc, rc, sc>>

\* the first process runs alone (no worker id) or as worker 0 of two
SuiteInit ==
    /\ ENV \in {s \in Settings : s.BROWSER = "chromium" /\ s.TRACE_ON_FAILURE
                                  /\ s.SCREENSHOT_EACH_STEP}
    /\ storageFile = "full"
    /\ mgr = InitMgr
    /\ lastCall = NoCall
    /\ hk = InitHooks
    /\ gs = InitSetup
    /\ os = InitOs
    /\ sc = InitScenarios
    /\ rc = InitRace
    /\ wc = InitWait
    /\ sa = InitSafeAction
    /\ \E id \in {"unset", "0"}, previous \in BOOLEAN :
         su = [InitSuite EXCEPT
                 !.w[InitOs.pid].id = id,
                 !.fs = IF previous THEN @ ELSE [dirs |-> {}, files |-> {}]]

SuiteNext ==
    \/ \E p \in Procs : SuiteStart(p)
    \/ \E p \in Procs : SuiteClear(p)
    \/ \E p \in Procs : SuiteEnsure(p)
    \/ \E p \in Procs : ArtifactDir(p)
    \/ \E p \in Procs : ArtifactWrite(p)

SuiteSpec == SuiteInit /\ [][SuiteNext]_vars

\* the directories of `dirs`
Tree == {dirs[k] : k \in DOMAIN dirs}

C27_CleanupSparesOtherWorkers ==
    /\ su.lost = {}
    /\ su.failed = {}

-----------------------------------------------------------------------------
(* Further claims about the hooks, checked under HookSpec *)

C24_StepScreenshotGated ==
    [][hk.pc = "afterStep"
         => /\ hk'.pc \in {"steps", "after"}
            /\ mgr' = mgr
            /\ ~ENV.SCREENSHOT_EACH_STEP => hk' = [hk EXCEPT !.pc = hk'.pc]
            /\ ENV.SCREENSHOT_EACH_STEP
                  => /\ hk'.stepIndex = hk.stepIndex + 1
                     /\ hk'.stepIndex = hk.ran
                     /\ \/ hk'.stepShot =
                              ScreenshotPath(StepShotName(hk.name, hk.ran, hk.status,
                                                          pickleStepText(hk.ran)))
                        \/ /\ hk'.stepShot = NoFile
                           /\ hk'.stepWarns # {}
                           /\ hk'.attached = hk.attached]_vars

\* the second step of a scenario passed and its screenshot was written
C24_Witness ==
    /\ ENV.SCREENSHOT_EACH_STEP
    /\ hk.pc = "steps"
    /\ hk.stepIndex = 2 /\ hk.ran = 2
    /\ hk.stepShot = ScreenshotPath(<<"Sign_in", 2, "PASSED", "I_click_the_Sign_In_button">>)
    /\ hk.stepWarns = {}

-----------------------------------------------------------------------------
(* pages/BasePage.ts: safeAction, one turn of its loop per step *)

\* what an invocation of the action does: it resolves, or it throws an Error
\* or something that is not an Error
ActionOutcomes == {"resolves", "throws Error", "throws string"}

\* `error instanceof Error ? error : new Error(String(error))`: the Error kept
\* for the attempt, with the attempt it comes from
AsError(attempt, outcome) ==
    [error |-> "Error", of |-> attempt, wrapped |-> outcome = "throws string"]

\* one turn of `for (let attempt = 1; attempt <= retries; attempt++)`
SafeAttempt ==
    /\ sa.pc = "loop"
    /\ sa.attempt <= sa.retries
    /\ \E outcome \in ActionOutcomes :
         sa' = IF outcome = "resolves"
               THEN [sa EXCEPT !.pc = "returned",
                               !.tried = Append(@, outcome),
                               !.returned = sa.attempt]
               ELSE [sa EXCEPT !.pc = IF sa.attempt < sa.retries THEN "sleep" ELSE "loop",
                               !.tried = Append(@, outcome),
                               !.lastError = AsError(sa.attempt, outcome),
                               !.attempt = IF sa.attempt < sa.retries THEN @ ELSE @ + 1]
    /\ UNCHANGED <<ENV, storageFile, mgr, lastCall, hk, gs, os, su, wc, rc, sc>>

\* the second between two attempts is over
SafeSleep ==
    /\ sa.pc = "sleep"
    /\ sa' = [sa EXCEPT !.pc = "loop", !.attempt = @ + 1]
    /\ UNCHANGED <<ENV, storageFile, mgr, lastCall, hk, gs, os, su, wc, rc, sc>>

\* the loop is over: `throw lastError`
SafeThrow ==
    /\ sa.pc = "loop"
    /\ sa.attempt > sa.retries
    /\ sa' = [sa EXCEPT !.pc = "threw", !.thrown = sa.lastError]
    /\ UNCHANGED <<ENV, storageFile, mgr, lastCall, hk, gs, os, su, wc, rc, sc>>

SafeInit ==
    /\ ENV \in {s \in Settings : s.BROWSER = "chromium" /\ s.TRACE_ON_FAILURE
                                  /\ s.SCREENSHOT_EACH_STEP}
    /\ storageFile = "full"
    /\ mgr = InitMgr
    /\ lastCall = NoCall
    /\ hk = InitHooks
    /\ gs = InitSetup
    /\ os = InitOs
    /\ sc = InitScenarios
    /\ rc = InitRace
    /\ wc = InitWait
    /\ su = InitSuite
    /\ \E retries \in -1 .. MaxRetries : sa = [InitSafeAction EXCEPT !.retries = retries]

SafeNext ==
    \/ SafeAttempt
    \/ SafeSleep
    \/ SafeThrow

SafeSpec == SafeInit /\ [][SafeNext]_vars

\* C25: safeAction invokes the action at least once and at most `retries`
\* times, returns the result of the first attempt that resolves and makes no
\* attempt after it, and when every attempt fails throws the Error of the last
\* one, for every integer `retries`, 0 and the negative ones included.
C25_AtLeastOnceAtMostRetries ==
    /\ sa.pc \in {"returned", "threw"}
          => Len(sa.tried) >= 1 /\ Len(sa.tried) <= sa.retries
    /\ sa.pc = "returned"
          => /\ sa.returned = Len(sa.tried)
             /\ sa.tried[sa.returned] = "resolves"
             /\ \A k \in 1 .. (sa.returned - 1) : sa.tried[k] # "resolves"
    /\ sa.pc = "threw"
          => /\ Len(sa.tried) = sa.retries
             /\ \A k \in 1 .. Len(sa.tried) : sa.tried[k] # "resolves"
             /\ sa.thrown # NoError
             /\ sa.thrown = AsError(sa.retries, sa.tried[sa.retries])

-----------------------------------------------------------------------------
(* utils/waitUtils.ts: waitForCondition, polling against the clock os.now; *)
(* time passes (Tick) between any two of its steps                         *)

WaitStep(w) ==
    /\ wc' = w
    /\ UNCHANGED <<ENV, storageFile, mgr, lastCall, hk, gs, os, su, sa, rc, sc>>

\* `const waitTimeout = timeout || ENV.DEFAULT_TIMEOUT; const startTime = Date.now()`
WaitStart ==
    /\ wc.pc = "start"
    /\ WaitStep([wc EXCEPT
                   !.pc = "check",
                   !.waitTimeout = IF wc.timeout = 0 THEN DefaultTimeout ELSE wc.timeout,
                   !.startTime = os.now])

\* `while (Date.now() - startTime < waitTimeout)`, and the throw after the loop
WaitCheck ==
    /\ wc.pc = "check"
    /\ WaitStep(IF os.now - wc.startTime < wc.waitTimeout
                THEN [wc EXCEPT !.pc = "eval", !.evals = @ + 1]
                ELSE [wc EXCEPT !.pc = "threw",
                                !.message = <<"Condition not met within", wc.waitTimeout>>])

\* `await condition()` settles: true returns; false or an exception goes on
\* to the setTimeout
WaitEvaluated ==
    /\ wc.pc = "eval"
    /\ \E result \in {"true", "false", "throws"} :
         WaitStep([wc EXCEPT
                     !.pc = IF result = "true" THEN "returned" ELSE "sleep",
                     !.last = result,
                     !.endedAt = os.now,
                     !.wakeAt = os.now + Interval])

\* the setTimeout(resolve, interval) fires, not before its time
WaitWake ==
    /\ wc.pc = "sleep"
    /\ os.now >= wc.wakeAt
    /\ WaitStep([wc EXCEPT !.pc = "check"])

WaitInit ==
    /\ ENV \in {s \in Settings : s.BROWSER = "chromium" /\ s.TRACE_ON_FAILURE
                                  /\ s.SCREENSHOT_EACH_STEP}
    /\ storageFile = "full"
    /\ mgr = InitMgr
    /\ lastCall = NoCall
    /\ hk = InitHooks
    /\ gs = InitSetup
    /\ os = InitOs
    /\ sc = InitScenarios
    /\ rc = InitRace
    /\ su = InitSuite
    /\ sa = InitSafeAction
    /\ \E timeout \in -1 .. DefaultTimeout : wc = [InitWait EXCEPT !.timeout = timeout]

WaitNext ==
    \/ WaitStart
    \/ WaitCheck
    \/ WaitEvaluated
    \/ WaitWake
    \/ Tick

WaitSpec == WaitInit /\ [][WaitNext]_vars

\* C26: waitForCondition returns only after an evaluation of the condition
\* returned true, and that before the timeout elapsed; it throws 'Condition
\* not met within <timeout>ms' when none did; an exception of the condition
\* is taken as not yet met and the polling goes on; and with a positive
\* timeout the condition is evaluated at least once before the error.
C26_PollsUntilTrueOrTimeout ==
    /\ wc.pc = "returned"
          => /\ wc.last = "true"
             /\ wc.endedAt - wc.startTime < wc.waitTimeout
    /\ wc.pc = "threw"
          => /\ wc.last # "true"
             /\ wc.message = <<"Condition not met within", wc.waitTimeout>>
             /\ wc.timeout > 0 => wc.evals >= 1
    /\ wc.last = "throws" => wc.pc \in {"sleep", "check", "eval", "threw"}

-----------------------------------------------------------------------------
(* PlaywrightManager called by two callers whose calls overlap: a call gives *)
(* way to the other at each of its awaits                                    *)

\* launchBrowser from its `await <engine>.launch(launchOptions)` on: the
\* launch settles, the handle is assigned and returned
launchSettled(m, e) ==
    IF ~e.launch THEN Ret(m, "launchFailed", Null)
    ELSE LET b == Fresh(DOMAIN m.browsers \cup {m.browser})
         IN Ret([m EXCEPT !.browsers = With(@, b, EngineFor(toLowerCase(ENV.BROWSER))),
                          !.browser = b],
                "ok", b)

RaceStep(c, call, m) ==
    /\ WithinBounds(m)
    /\ rc' = [rc EXCEPT ![c] = call]
    /\ mgr' = m
    /\ UNCHANGED <<ENV, storageFile, lastCall, hk, gs, os, su, sa, wc, sc>>

\* a caller calls launchBrowser() or createContext(): up to the first await.
\* `if (this.browser) return this.browser` / `if (!this.browser) await
\* this.launchBrowser()`
RaceEnter(c) ==
    /\ rc[c].pc = "idle"
    /\ \E op \in {"launchBrowser", "createContext"} :
         RaceStep(c,
                  IF mgr.browser = Null
                  THEN [op |-> op, pc |-> "launch", browser |-> Null]
                  ELSE [op |-> op,
                        pc |-> IF op = "launchBrowser" THEN "done" ELSE "newContext",
                        browser |-> mgr.browser],
                  mgr)

\* the awaited launch() of a caller settles
RaceLaunched(c) ==
    /\ rc[c].pc = "launch"
    /\ \E e \in Outcomes({"launch"}) :
         \E r \in {launchSettled(mgr, e)} :
            RaceStep(c,
                     [rc[c] EXCEPT
                        !.pc = IF r.res # "ok" THEN "failed"
                               ELSE IF rc[c].op = "launchBrowser" THEN "done"
                               ELSE "newContext",
                        !.browser = r.ret],
                     r.m)

\* createContext past its launchBrowser: the context is made on this.browser
RaceNewContext(c) ==
    /\ rc[c].pc = "newContext"
    /\ mgr.browser # Null
    /\ \E e \in Outcomes({"newContext", "tracingStart"}) :
         \E r \in {createContext(mgr, e)} :
            RaceStep(c, [rc[c] EXCEPT !.pc = IF r.res = "ok" THEN "done" ELSE "failed"],
                     r.m)

\* both calls are over: closeBrowser(), which leaves the callers nothing
RaceCloseBrowser ==
    /\ \A c \in Callers : rc[c].pc \in {"done", "failed"}
    /\ \E c \in Callers : rc[c].pc = "done"
    /\ rc' = [c \in Callers |-> [rc[c] EXCEPT !.pc = "closed"]]
    /\ mgr' = closeBrowser(mgr).m
    /\ UNCHANGED <<ENV, storageFile, lastCall, hk, gs, os, su, sa, wc, sc>>

RaceInit ==
    /\ ENV \in Settings
    /\ storageFile \in {"absent", "full"}
    /\ mgr = InitMgr
    /\ lastCall = NoCall
    /\ hk = InitHooks
    /\ gs = InitSetup
    /\ os = InitOs
    /\ sc = InitScenarios
    /\ su = InitSuite
    /\ sa = InitSafeAction
    /\ wc = InitWait
    /\ rc = InitRace

RaceNext ==
    \/ \E c \in Callers : RaceEnter(c)
    \/ \E c \in Callers : RaceLaunched(c)
    \/ \E c \in Callers : RaceNewContext(c)
    \/ RaceCloseBrowser

RaceSpec == RaceInit /\ [][RaceNext]_vars

\* C28: when two launchBrowser() calls overlap, made directly or through
\* createContext(), one browser process is launched and both callers get the
\* same handle: no browser is open that the manager does not hold, and none
\* is left open by closeBrowser().
C28_OverlappingLaunchesShareBrowser ==
    /\ Cardinality(DOMAIN mgr.browsers) <= 1
    /\ DOMAIN mgr.browsers \subseteq {mgr.browser}
    /\ \A c, d \in Callers :
          (rc[c].browser # Null /\ rc[d].browser # Null)
             => rc[c].browser = rc[d].browser
    /\ (\A c \in Callers : rc[c].pc = "closed") => DOMAIN mgr.browsers = {}

-----------------------------------------------------------------------------
(* The manager driven call by call as under Spec, with close() calls of     *)
(* Playwright that may throw: the teardown method ends where the close threw *)

\* the handle a close() is called on
HandleAt(m, at) ==
    CASE at = "page" -> m.page
      [] at = "context" -> m.context
      [] at = "browser" -> m.browser

\* the close() of the object `at` throws; `took` says whether the object was
\* closed all the same
CloseThrows(m, at, took) ==
    LET r == CASE at = "page" -> PageClose(m, m.page)
               [] at = "context" -> ContextClose(m, m.context)
               [] at = "browser" -> BrowserClose(m, m.browser)
    IN  Ret(IF took THEN r.m ELSE m, "closeFailed", Null)

\* closeBrowser nulling the browser handle before it closes anything
closeBrowserThrowing_NullsFirst(m, at, took) ==
    CloseThrows([m EXCEPT !.browser = Null], at, took /\ at # "browser")

\* closeBrowser() in which the close() of `at` throws: what comes before it
\* in the method has run, what comes after it has not
closeBrowserThrowing(m, at, took) ==
    CASE at = "page" -> CloseThrows(m, at, took)
      [] at = "context" -> CloseThrows(closePage(m).m, at, took)
      [] at = "browser" -> CloseThrows(closeContext(closePage(m).m).m, at, took)

\* closePage(), closeContext(), closeBrowser() or cleanup() with a close()
\* that throws
TeardownThrows ==
    \E op \in {"closePage", "closeContext", "closeBrowser", "cleanup"},
       at \in {"page", "context", "browser"}, took \in BOOLEAN :
        /\ op = "closePage" => at = "page"
        /\ op = "closeContext" => at = "context"
        /\ HandleAt(mgr, at) # Null
        /\ Call(op, IF op \in {"closeBrowser", "cleanup"}
                    THEN closeBrowserThrowing(mgr, at, took)
                    ELSE CloseThrows(mgr, at, took))

FaultInit ==
    /\ ENV \in {s \in Settings : s.BROWSER = "chromium" /\ s.SCREENSHOT_EACH_STEP}
    /\ storageFile = "full"
    /\ mgr = InitMgr
    /\ lastCall = NoCall
    /\ hk = InitHooks
    /\ gs = InitSetup
    /\ os = InitOs
    /\ sc = InitScenarios
    /\ su = InitSuite
    /\ sa = InitSafeAction
    /\ wc = InitWait
    /\ rc = InitRace

FaultNext ==
    \/ LaunchBrowser
    \/ CreateContext
    \/ CreatePage
    \/ ClosePage
    \/ CloseContext
    \/ CloseBrowser
    \/ Cleanup
    \/ TeardownThrows

FaultSpec == FaultInit /\ [][FaultNext]_vars

\* C29: in every state of the manager, those reached when a close() throws
\* partway through a teardown included, a null browser handle comes with null
\* context and page handles: the browser handle is not released while the
\* manager holds a context or a page handle.
C29_BrowserHandleReleasedLast ==
    mgr.browser = Null => mgr.context = Null /\ mgr.page = Null

\* closeBrowser() whose context.close() threw: the page handle is released,
\* the context and browser handles are kept
C29_Witness ==
    /\ lastCall.op = "closeBrowser"
    /\ lastCall.res = "closeFailed"
    /\ lastCall.pre.page # Null
    /\ mgr.page = Null
    /\ mgr.context # Null
    /\ mgr.browser # Null

-----------------------------------------------------------------------------
(* The defined scenarios run by one worker in any order: which step binds   *)
(* the page actors of its module to getPage() and which step uses them      *)

\* the scenarios of the three features, each with its Background step
Scenarios ==
    << \* Navigation & Layout Validation
       <<"I am on the MultiBank home page", "the navigation bar should be visible",
         "the logo should be visible">>,
       <<"I am on the MultiBank home page",
         "the navigation menu should display menu items",
         "Sign In button should be visible", "Sign Up button should be visible">>,
       <<"I am on the MultiBank home page",
         "Sign In link should point to the login page",
         "Sign Up link should point to the register page">>,
       <<"I am on the MultiBank home page", "I click the Sign In button",
         "the URL should contain \"login\"">>,
       <<"I am on the MultiBank home page", "the navigation bar should be visible",
         "the logo should be visible", "the main content area should be visible",
         "the hero section should be visible", "the footer should be visible">>,
       \* Trading Functionality Validation
       <<"I am on the explore page", "the trading section should be visible",
         "trading pairs should be displayed">>,
       <<"I am on the explore page", "trading category tabs should be displayed",
         "the category count should be greater than zero">>,
       <<"I am on the explore page", "I wait for dynamic content to load",
         "each trading pair should have valid data structure">>,
       <<"I am on the explore page",
         "the market data should display expected column headers">>,
       <<"I am on the explore page", "I wait for dynamic content to load",
         "trading pairs should be displayed", "price values should be visible">>,
       \* Content Validation
       <<"I am on the MultiBank home page",
         "the hero section should display crypto heading",
         "the page should have feature sections">>,
       <<"I am on the MultiBank home page", "the Download App link should be visible",
         "the Download App link should contain a valid href">>,
       <<"I am on the MultiBank home page", "I scroll to the bottom of the page",
         "marketing banners should be visible at page bottom">>,
       <<"I am on the MultiBank home page", "I scroll to the market data section",
         "crypto ticker links should be displayed">>,
       <<"I am on the company page", "the company page heading should be visible",
         "section headers should be present on the page",
         "paragraph content should be present on the page">>,
       <<"I am on the company page",
         "visual components should be present on the page">>,
       <<"I am on the MultiBank home page", "I scroll to the bottom of the page",
         "the footer should be visible", "footer links should be present">> >>

\* a step definition: the actors it constructs from getPage() (`binds`), the
\* actor whose being defined makes it skip that (`guard`, for
\* `if (!aboutPage) initPages()`), and the actor it then works through
StepDef(text) ==
    LET def(binds, guard, uses) == [binds |-> binds, guard |-> guard, uses |-> uses]
        initPages == {"content.homePage", "content.aboutPage"}
    IN  CASE text = "I am on the MultiBank home page"
               -> def({"nav.homePage", "nav.navigation"}, "none", {"nav.homePage"})
          [] text = "I am on the explore page"
               -> def({"trading.tradingPage"}, "none", {"trading.tradingPage"})
          [] text = "I am on the company page"
               -> def(initPages, "none", {"content.aboutPage"})
          [] text \in {"the hero section should display crypto heading",
                       "the Download App link should be visible",
                       "marketing banners should be visible at page bottom",
                       "I scroll to the market data section",
                       "I scroll to the bottom of the page"}
               -> def(initPages, "none", {"content.homePage"})
          [] text \in {"the Download App link should contain a valid href",
                       "crypto ticker links should be displayed",
                       "footer links should be present"}
               -> def({}, "none", {"content.homePage"})
          [] text \in {"section headers should be present on the page",
                       "paragraph content should be present on the page",
                       "visual components should be present on the page"}
               -> def(initPages, "content.aboutPage", {"content.aboutPage"})
          [] text \in {"the company page heading should be visible",
                       "the page should have feature sections",
                       "the URL should contain \"login\""}
               -> def({}, "none", {})
          [] text \in {"the navigation bar should be visible",
                       "the logo should be visible",
                       "the navigation menu should display menu items",
                       "Sign In button should be visible",
                       "Sign Up button should be visible",
                       "Sign In link should point to the login page",
                       "Sign Up link should point to the register page",
                       "I click the Sign In button"}
               -> def({}, "none", {"nav.navigation"})
          [] text \in {"the main content area should be visible",
                       "the hero section should be visible",
                       "the footer should be visible"}
               -> def({}, "none", {"nav.homePage"})
          [] OTHER -> def({}, "none", {"trading.tradingPage"})

\* page actors constructed once and kept: every construction under
\* `if (!actor)`
Bound_OnlyWhenUnset(actors, d, page) ==
    [a \in Actors |-> IF a \in d.binds /\ actors[a] = Null THEN page ELSE actors[a]]

\* the actors after the constructions of a step, `page` being getPage()
Bound(actors, d, page) ==
    IF d.guard # "none" /\ actors[d.guard] # Null THEN actors
    ELSE [a \in Actors |-> IF a \in d.binds THEN page ELSE actors[a]]

\* the Before hook of the next scenario, any of the defined ones
ScenarioBefore ==
    /\ sc.pc = "idle"
    /\ sc.ran < MaxScenarios
    /\ \E k \in DOMAIN Scenarios, e \in Outcomes({"newPage"}) :
         \E r \in {Before(mgr, e)} :
            /\ WithinBounds(r.m)
            /\ mgr' = r.m
            /\ sc' = [sc EXCEPT !.pc = IF r.res = "ok" THEN "steps" ELSE "after",
                                !.k = k,
                                !.prev = sc.k,
                                !.step = 1]
    /\ UNCHANGED <<ENV, storageFile, lastCall, hk, gs, os, su, sa, wc, rc>>

\* the next step of the scenario runs: it constructs its actors, works
\* through one, and passes or fails (the steps after a failed one are
\* skipped)
ScenarioStep ==
    /\ sc.pc = "steps"
    /\ \E passes \in BOOLEAN :
         LET text == Scenarios[sc.k][sc.step]
             d == StepDef(text)
             actors == Bound(sc.actors, d, getPage(mgr).ret)
             wrong == {a \in d.uses : actors[a] # mgr.page \/ ~PageLive(mgr, actors[a])}
         IN /\ sc' = [sc EXCEPT
                        !.pc = IF passes /\ wrong = {} /\ sc.step < Len(Scenarios[sc.k])
                               THEN "steps" ELSE "after",
                        !.step = @ + 1,
                        !.actors = actors,
                        !.last = IF d.uses = {} THEN [text |-> text, actor |-> "none",
                                                      page |-> mgr.page]
                                 ELSE CHOOSE u \in {[text |-> text, actor |-> a,
                                                     page |-> actors[a]] : a \in d.uses} :
                                         TRUE,
                        !.misuse = @ \cup {[text |-> text, actor |-> a] : a \in wrong}]
            /\ mgr' = [mgr EXCEPT !.held = @ \cup {<<"page", actors[a]>> :
                                                     a \in {b \in Actors : actors[b] # Null}}]
    /\ UNCHANGED <<ENV, storageFile, lastCall, hk, gs, os, su, sa, wc, rc>>

\* the After hook: the page and the context of the scenario are closed
ScenarioAfter ==
    /\ sc.pc = "after"
    /\ \E e \in Outcomes({}), x \in HookMeets({}) :
         \E r \in {After(mgr, [status |-> "PASSED", name |-> "Sign in"], e, x)} :
            /\ mgr' = r.m
            /\ sc' = [sc EXCEPT !.pc = "idle", !.ran = @ + 1]
    /\ UNCHANGED <<ENV, storageFile, lastCall, hk, gs, os, su, sa, wc, rc>>

ScenarioInit ==
    /\ ENV \in {s \in Settings : s.BROWSER = "chromium" /\ s.TRACE_ON_FAILURE
                                  /\ s.SCREENSHOT_EACH_STEP}
    /\ storageFile = "full"
    /\ mgr = InitMgr
    /\ lastCall = NoCall
    /\ hk = InitHooks
    /\ gs = InitSetup
    /\ os = InitOs
    /\ su = InitSuite
    /\ sa = InitSafeAction
    /\ wc = InitWait
    /\ rc = InitRace
    /\ sc = InitScenarios

ScenarioNext ==
    \/ ScenarioBefore
    \/ ScenarioStep
    \/ ScenarioAfter

ScenarioSpec == ScenarioInit /\ [][ScenarioNext]_vars

\* C30: whatever the order in which a worker runs the defined scenarios,
\* every page actor a step works through is bound to the page of the running
\* scenario, open: no step uses an actor that is undefined or that was
\* constructed with the page of an earlier scenario.
C30_ActorsBoundToCurrentPage ==
    /\ sc.misuse = {}
    /\ (sc.pc \in {"steps", "after"} /\ sc.last.actor # "none" /\ sc.step > 1
          /\ mgr.page # Null)
          => sc.last.page = mgr.page /\ PageLive(mgr, sc.last.page)

\* a company-page scenario run after another one: its guarded step found
\* aboutPage defined and used it, bound to the page of the running scenario
C30_Witness ==
    /\ sc.prev = 15 /\ sc.k = 16
    /\ sc.last.text = "visual components should be present on the page"
    /\ sc.last.actor = "content.aboutPage"
    /\ sc.last.page = mgr.page
    /\ PageLive(mgr, mgr.page)
    /\ \E h \in Held(mgr, "page") : h # mgr.page

====
